---------------------------- MODULE Spec2Model ----------------------------
(***************************************************************************)
(* Model of the PPC optimizer (src/amazon_ppc_optimizer_advanced.py).      *)
(*                                                                         *)
(* Number representation.  The program computes in binary floating point;  *)
(* the model computes in exact rational arithmetic:                        *)
(*   - money read from a report (cost, sales) and current bids are whole   *)
(*     cents;                                                              *)
(*   - percentages of the rule set (up_pct, down_pct, the ACOS thresholds, *)
(*     the dayparting multipliers) are whole percents, min_ctr is in       *)
(*     thousandths;                                                        *)
(*   - a proposed bid, bid * (1 -+ pct) * mult, is a whole number of       *)
(*     1/10000 cent (BidScale): the product of a bid in cents and two      *)
(*     percentages;                                                        *)
(*   - a ratio (ctr, acos) is a record [inf, n, d] standing for n / d, or  *)
(*     for float("inf") when inf is TRUE; ratios are compared by cross     *)
(*     multiplication.                                                     *)
(* round(x, 2) of a value that lies exactly half way between two cents is  *)
(* decided in the program by the binary representation error, so the model *)
(* leaves both neighbours possible.                                        *)
(***************************************************************************)
EXTENDS Integers, Sequences, FiniteSets, TLC

VARIABLES
    rules,                 \* the rule set in force (main: DEFAULT_RULES.copy())
    hour,                  \* the wall clock's hour, datetime.now().hour
    ticks,                 \* how many times the hour has changed since the start
    call,                  \* the latest application of one of the functions: its inputs and result
    pc,                    \* main's position
    args,                  \* main's command line: dry_run, skip_campaigns, skip_bids
    daypart_mult,          \* main's local daypart_mult (line 741)
    campaign_performance,  \* main's campaign performance map, in insertion order
    campaign_index,        \* manage_campaigns_by_acos: entries of the map already visited
    campaign_actions,      \* manage_campaigns_by_acos: its actions list
    keyword_rows,          \* main: the keyword report's rows not yet visited
    bid_updates,           \* main's bid_updates list
    audit_lines,           \* main's audit_lines list
    audit_file,            \* the rows of the audit file written by the run
    calls,                 \* the mutating platform calls of the step in progress, in order
    called,                \* the mutating platform operations called in the steps before
    poll,                  \* poll_report: its clock, deadline, latest response and outcome
    reports,               \* main: how the fetch of each report of the run went
    server                 \* server.py: the handler's class variables, the two threads, the responses

vars == <<rules, hour, ticks, call, pc, args, daypart_mult, campaign_performance,
          campaign_index, campaign_actions, keyword_rows, bid_updates,
          audit_lines, audit_file, calls, called, poll, reports, server>>

\* the variables of main's run
run_vars == <<ticks, pc, args, daypart_mult, campaign_performance, campaign_index,
              campaign_actions, keyword_rows, bid_updates, audit_lines,
              audit_file, calls, called, poll, reports>>

---------------------------------------------------------------------------
(* Ratios *)

Rat(n, d) == [inf |-> FALSE, n |-> n, d |-> d]

\* float("inf")
Inf == [inf |-> TRUE, n |-> 1, d |-> 1]

Zero == Rat(0, 1)

Pct(p) == Rat(p, 100)

PerMille(p) == Rat(p, 1000)

\* a < b on floats (denominators are positive); inf < x is false, x < inf is true for finite x
RatLt(a, b) ==
    IF a.inf THEN FALSE
    ELSE IF b.inf THEN TRUE
    ELSE a.n * b.d < b.n * a.d

RatGt(a, b) == RatLt(b, a)

RatEq(a, b) ==
    IF a.inf \/ b.inf THEN a.inf /\ b.inf
    ELSE a.n * b.d = b.n * a.d

---------------------------------------------------------------------------
(* Configuration *)

\* proposed bids are counted in 1/BidScale cent
BidScale == 100 * 100

PeakHours == 9 .. 20

DEFAULT_RULES ==
    [ lookback_days |-> 14,
      min_clicks |-> 10,
      min_spend |-> 500,
      target_acos |-> 45,
      high_acos |-> 45,
      low_acos |-> 30,
      min_ctr |-> 3,
      up_pct |-> 15,
      down_pct |-> 15,
      min_bid |-> 25,
      max_bid |-> 500,
      dayparting_enabled |-> TRUE,
      peak_hours |-> PeakHours,
      peak_multiplier |-> 120,
      off_peak_multiplier |-> 85,
      auto_activate_campaigns |-> TRUE,
      auto_deactivate_campaigns |-> TRUE,
      deactivate_acos_threshold |-> 45,
      activate_acos_threshold |-> 45,
      auto_add_keywords |-> TRUE,
      keyword_research_enabled |-> TRUE,
      max_keywords_per_campaign |-> 50,
      new_keyword_bid |-> 50,
      auto_create_campaigns |-> TRUE,
      new_campaign_daily_budget |-> 1000 ]

\* The rule sets the functions are applied to: the defaults, the defaults with
\* dayparting switched off, the defaults without automatic deactivation,
\* without the addition of keywords and without the creation of campaigns, and
\* a set with other thresholds, a peak
\* multiplier of 1.0 and a keyword quota of 2.
RulesSet ==
    { DEFAULT_RULES,
      [DEFAULT_RULES EXCEPT !.dayparting_enabled = FALSE],
      [DEFAULT_RULES EXCEPT !.auto_deactivate_campaigns = FALSE,
                            !.auto_add_keywords = FALSE,
                            !.auto_create_campaigns = FALSE],
      [DEFAULT_RULES EXCEPT !.peak_multiplier = 100,
                            !.off_peak_multiplier = 70,
                            !.up_pct = 20,
                            !.down_pct = 10,
                            !.min_bid = 30,
                            !.max_bid = 400,
                            !.activate_acos_threshold = 50,
                            !.deactivate_acos_threshold = 40,
                            !.max_keywords_per_campaign = 2] }

---------------------------------------------------------------------------
(* Report rows and KPI calculation *)

\* A field of a report row: absent from the row, the empty string, a number, or
\* a text that is no number.
Missing == [kind |-> "missing", v |-> 0]

Empty == [kind |-> "empty", v |-> 0]

Text == [kind |-> "text", v |-> 0]

Num(x) == [kind |-> "num", v |-> x]

\* float(row.get(key, 0)), without "or 0": float("") raises too
Parses_no_or(f) == f.kind \notin {"text", "empty"}

\* float(row.get(key, 0) or 0) returns: an absent key yields the default 0, an
\* empty string is falsy and yields 0, a numeric string is parsed; float() of
\* any other text raises ValueError
Parses(f) == f.kind # "text"

FieldValue(f) == IF f.kind = "num" THEN f.v ELSE 0

\* line 416
Ctr(clicks, impressions) ==
    IF impressions # 0 THEN Rat(clicks, impressions) ELSE Zero

\* the ACOS with no sales taken as zero
Acos_zero(cost, sales) ==
    IF sales > 0 THEN Rat(cost, sales) ELSE Zero

\* line 417
Acos(cost, sales) ==
    IF sales > 0 THEN Rat(cost, sales)
    ELSE IF cost > 0 THEN Inf
    ELSE Zero

\* the exception leaving compute_kpis
KpiError ==
    [raised |-> TRUE, ctr |-> Zero, acos |-> Zero, cost |-> 0, sales |-> 0, clicks |-> 0]

compute_kpis(row) ==
    IF ~(Parses(row.clicks) /\ Parses(row.impressions) /\ Parses(row.cost)
         /\ Parses(row.attributedSales14d))
    THEN KpiError
    ELSE
    LET clicks == FieldValue(row.clicks)
        impressions == FieldValue(row.impressions)
        cost == FieldValue(row.cost)
        sales == FieldValue(row.attributedSales14d)
    IN  [raised |-> FALSE, ctr |-> Ctr(clicks, impressions), acos |-> Acos(cost, sales),
         cost |-> cost, sales |-> sales, clicks |-> clicks]

---------------------------------------------------------------------------
(* Dayparting *)

\* the multiplier chosen without looking at dayparting_enabled
get_dayparting_multiplier_no_switch(rs, current_hour) ==
    IF current_hour \in rs.peak_hours THEN rs.peak_multiplier
    ELSE rs.off_peak_multiplier

\* current_hour stands for datetime.now().hour read at line 429; multipliers
\* are in percent, 100 is 1.0
get_dayparting_multiplier(rs, current_hour) ==
    IF ~rs.dayparting_enabled THEN 100
    ELSE IF current_hour \in rs.peak_hours THEN rs.peak_multiplier
    ELSE rs.off_peak_multiplier

---------------------------------------------------------------------------
(* Bid optimization *)

Max(a, b) == IF a >= b THEN a ELSE b

Min(a, b) == IF a <= b THEN a ELSE b

\* clamp without its lower bound
clamp_no_floor(v, lo, hi) == Min(hi, v)

clamp(v, lo, hi) == Max(lo, Min(hi, v))

\* Optional[float]: None, or a bid in 1/BidScale cent
None == [some |-> FALSE, v |-> 0]

Some(v) == [some |-> TRUE, v |-> v]

\* the guard with the spend comparison inverted
InsufficientData_inverted(rs, clicks, cost) ==
    clicks < rs.min_clicks /\ cost > rs.min_spend

\* the guard made symmetric: too few clicks or too little spend
InsufficientData_or(rs, clicks, cost) ==
    clicks < rs.min_clicks \/ cost < rs.min_spend

\* line 449
InsufficientData(rs, clicks, cost) ==
    clicks < rs.min_clicks /\ cost < rs.min_spend

\* the pass-through taken whatever the multiplier
DaypartingApplies_always(mult) == TRUE

\* line 476
DaypartingApplies(mult) == mult # 100

\* lines 457, 462, 467: (1 - rules["down_pct"]), in percent
DownFactor(rs) == 100 - rs.down_pct

\* the cascade with the low-ACOS rule tried before the low-CTR rule
decide_bid_change_acos_first(rs, ctr, acos, clicks, cost, sales, current_bid, current_hour) ==
    IF InsufficientData(rs, clicks, cost) THEN None
    ELSE
    LET mult == get_dayparting_multiplier(rs, current_hour)
        lo == rs.min_bid * BidScale
        hi == rs.max_bid * BidScale
        down == current_bid * DownFactor(rs) * mult
        up == current_bid * (100 + rs.up_pct) * mult
    IN  IF RatLt(acos, Pct(rs.low_acos)) /\ sales > 0
            THEN Some(clamp(up, lo, hi))
        ELSE IF RatLt(ctr, PerMille(rs.min_ctr)) /\ clicks >= rs.min_clicks
            THEN Some(clamp(down, lo, hi))
        ELSE IF sales <= 0 /\ clicks >= rs.min_clicks
            THEN Some(clamp(down, lo, hi))
        ELSE IF RatGt(acos, Pct(rs.high_acos))
            THEN Some(clamp(down, lo, hi))
        ELSE IF DaypartingApplies(mult)
            THEN Some(clamp(current_bid * 100 * mult, lo, hi))
        ELSE None

\* current_bid in cents; current_hour is the clock reading of the call to
\* get_dayparting_multiplier at line 453
decide_bid_change(rs, ctr, acos, clicks, cost, sales, current_bid, current_hour) ==
    IF InsufficientData(rs, clicks, cost) THEN None
    ELSE
    LET mult == get_dayparting_multiplier(rs, current_hour)
        lo == rs.min_bid * BidScale
        hi == rs.max_bid * BidScale
        down == current_bid * DownFactor(rs) * mult
        up == current_bid * (100 + rs.up_pct) * mult
    IN  IF RatLt(ctr, PerMille(rs.min_ctr)) /\ clicks >= rs.min_clicks
            THEN Some(clamp(down, lo, hi))
        ELSE IF sales <= 0 /\ clicks >= rs.min_clicks
            THEN Some(clamp(down, lo, hi))
        ELSE IF RatGt(acos, Pct(rs.high_acos))
            THEN Some(clamp(down, lo, hi))
        ELSE IF RatLt(acos, Pct(rs.low_acos)) /\ sales > 0
            THEN Some(clamp(up, lo, hi))
        ELSE IF DaypartingApplies(mult)
            THEN Some(clamp(current_bid * 100 * mult, lo, hi))
        ELSE None

---------------------------------------------------------------------------
(* Campaign management *)

\* the minimum-clicks test with <= in place of <
TooFewClicks_leq(rs, clicks) == clicks <= rs.min_clicks

\* no minimum-clicks test
TooFewClicks_never(rs, clicks) == FALSE

\* a zero-click test in place of the minimum-clicks test
TooFewClicks_zero(rs, clicks) == clicks <= 0

\* line 500
TooFewClicks(rs, clicks) == clicks < rs.min_clicks

\* One pass of the loop of manage_campaigns_by_acos (lines 494-545) over the
\* entry perf of campaign campaign_id.  update_ok tells whether
\* update_campaign_state returns (TRUE) or raises (FALSE), should it be called.
\* The result holds the actions appended and the platform calls made.
CampaignIteration(rs, campaign_id, perf, dry_run, update_ok) ==
    LET acos == perf.acos
        current_state == perf.state
        clicks == perf.clicks
        act(new_state, label) ==
            IF ~dry_run
            THEN [actions |-> IF update_ok
                              THEN <<[campaign_id |-> campaign_id, action |-> label,
                                      acos |-> acos]>>
                              ELSE <<>>,
                  calls |-> <<[op |-> "update_campaign_state", id |-> campaign_id,
                               arg |-> new_state]>>]
            ELSE [actions |-> <<[campaign_id |-> campaign_id,
                                 action |-> label \o " (dry-run)", acos |-> acos]>>,
                  calls |-> <<>>]
        nothing == [actions |-> <<>>, calls |-> <<>>]
    IN  IF TooFewClicks(rs, clicks) THEN nothing
        ELSE IF rs.auto_deactivate_campaigns
                /\ RatGt(acos, Pct(rs.deactivate_acos_threshold))
            THEN IF current_state = "enabled" THEN act("paused", "paused") ELSE nothing
        ELSE IF rs.auto_activate_campaigns
                /\ ~RatGt(acos, Pct(rs.activate_acos_threshold))
            THEN IF current_state = "paused" THEN act("enabled", "enabled") ELSE nothing
        ELSE nothing

---------------------------------------------------------------------------
(* Keyword research *)

\* A keyword text: a word in one of three spellings, or the empty string (stem
\* 0), which is what a missing keywordText reads as (lines 567, 582)
KeywordText(stem, form) == [stem |-> stem, form |-> form]

\* the text taken as it is
lower_identity(text) == text

\* str.lower(): the lower-case spelling of the word
lower(text) == [text EXCEPT !.form = "lower"]

\* the quota test with > in place of >=
AtQuota_gt(rs, existing_keywords) ==
    Len(existing_keywords) > rs.max_keywords_per_campaign

\* line 573
AtQuota(rs, existing_keywords) ==
    Len(existing_keywords) >= rs.max_keywords_per_campaign

\* the ceiling test with > in place of >=
BatchFull_gt(new_keywords) == Len(new_keywords) > 5

\* line 591
BatchFull(new_keywords) == Len(new_keywords) >= 5

\* lines 556-558: both switches must be on
ResearchSwitchedOn(rs) == rs.keyword_research_enabled /\ rs.auto_add_keywords

\* Lines 581-592, the loop over the suggestions from index i on: new_keywords
\* and existing_keyword_texts as they stand, the loop left at the ceiling
RECURSIVE FilterSuggestions(_, _, _, _)
FilterSuggestions(suggestions, i, existing_keyword_texts, new_keywords) ==
    IF i > Len(suggestions) THEN new_keywords
    ELSE LET keyword_text == suggestions[i].keywordText
         IN  IF lower(keyword_text) \notin existing_keyword_texts
             THEN LET added == Append(new_keywords, suggestions[i])
                  IN  IF BatchFull(added) THEN added
                      ELSE FilterSuggestions(suggestions, i + 1,
                               existing_keyword_texts \cup {lower(keyword_text)},
                               added)
             ELSE FilterSuggestions(suggestions, i + 1, existing_keyword_texts,
                                    new_keywords)

\* no except clause around create_keywords
CreateCaught_never(ad_group_id) == FALSE

\* line 606: "except Exception" around create_keywords and the loop over its
\* results catches the failure for any ad group
CreateCaught(ad_group_id) == TRUE

\* Lines 560-616 for one ad group.  existing_keywords is what get_keywords
\* returns for it, suggestions what get_keyword_suggestions would return;
\* created tells how create_keywords ends when called: it raises, or returns a
\* result for every keyword, or an empty list.  The result: whether suggestions
\* were fetched, the candidates, the call of create_keywords, the entries
\* appended to added_keywords, and whether an exception left the function
\* (int() of a missing campaign or ad group id, lines 584-585, is outside any
\* try).
ResearchAdGroup(rs, ad_group, existing_keywords, suggestions, dry_run, created) ==
    LET nothing == [fetched |-> FALSE, new_keywords |-> <<>>, calls |-> <<>>,
                    added |-> <<>>, raised |-> FALSE]
        existing_keyword_texts ==
            {lower(existing_keywords[i].keywordText) : i \in DOMAIN existing_keywords}
        accepted == FilterSuggestions(suggestions, 1, existing_keyword_texts, <<>>)
        new_keywords ==
            [i \in DOMAIN accepted |->
               [campaignId |-> ad_group.campaignId.v,
                adGroupId |-> ad_group.adGroupId.v,
                keywordText |-> accepted[i].keywordText,
                matchType |-> accepted[i].matchType,
                state |-> "enabled",
                bid |-> rs.new_keyword_bid]]
        entries(status, n) ==
            [i \in 1 .. n |->
               [ad_group_id |-> ad_group.adGroupId.v,
                keyword |-> new_keywords[i].keywordText,
                match_type |-> new_keywords[i].matchType,
                bid |-> new_keywords[i].bid,
                status |-> status]]
    IN  IF AtQuota(rs, existing_keywords) THEN nothing
        ELSE IF accepted = <<>> THEN [nothing EXCEPT !.fetched = TRUE]
        ELSE IF ad_group.campaignId.kind # "num" \/ ad_group.adGroupId.kind # "num"
             THEN [nothing EXCEPT !.fetched = TRUE, !.raised = TRUE]
        ELSE IF dry_run
             THEN [nothing EXCEPT !.fetched = TRUE, !.new_keywords = new_keywords,
                                  !.added = entries("dry-run", Len(new_keywords))]
        ELSE [nothing EXCEPT
                !.fetched = TRUE,
                !.new_keywords = new_keywords,
                !.calls = <<[op |-> "create_keywords", id |-> ad_group.adGroupId.v,
                             arg |-> new_keywords]>>,
                !.added = IF created = "all"
                          THEN entries("SUCCESS", Len(new_keywords))
                          ELSE <<>>,
                !.raised = created = "raises" /\ ~CreateCaught(ad_group.adGroupId.v)]

\* What the pass meets at one ad group: the ad group, whether get_keywords
\* (line 565) returns, the keywords it returns, the suggestions
\* get_keyword_suggestions would return, and how create_keywords would end
AdGroupInput(ad_group, fetch_ok, existing_keywords, suggestions, created) ==
    [ad_group |-> ad_group, fetch_ok |-> fetch_ok,
     existing_keywords |-> existing_keywords, suggestions |-> suggestions,
     created |-> created]

\* research_and_add_keywords before the first ad group: added_keywords, the
\* platform calls made, the ad groups the loop has come to with what was
\* decided for each, and whether an exception has left the function
NoPass == [added_keywords |-> <<>>, calls |-> <<>>, log |-> <<>>, raised |-> FALSE]

\* Lines 560-616, the loop over the ad groups from index i on.  get_keywords
\* (line 565) is called outside any try: when it raises, the exception leaves
\* the function.
RECURSIVE ResearchLoop(_, _, _, _, _)
ResearchLoop(rs, inputs, i, dry_run, pass) ==
    IF i > Len(inputs) THEN pass
    ELSE LET in == inputs[i]
             id == in.ad_group.adGroupId.v
         IN  IF ~in.fetch_ok
             THEN [pass EXCEPT
                     !.log = Append(pass.log,
                                    [ad_group_id |-> id, evaluated |-> FALSE,
                                     new_keywords |-> <<>>, created |-> "not_called",
                                     added |-> <<>>]),
                     !.raised = TRUE]
             ELSE LET o == ResearchAdGroup(rs, in.ad_group, in.existing_keywords,
                                           in.suggestions, dry_run, in.created)
                      next == [added_keywords |-> pass.added_keywords \o o.added,
                               calls |-> pass.calls \o o.calls,
                               log |-> Append(pass.log,
                                        [ad_group_id |-> id, evaluated |-> ~o.raised,
                                         new_keywords |-> o.new_keywords,
                                         created |-> IF o.calls = <<>> THEN "not_called"
                                                     ELSE in.created,
                                         added |-> o.added]),
                               raised |-> o.raised]
                  IN  IF o.raised THEN next
                      ELSE ResearchLoop(rs, inputs, i + 1, dry_run, next)

\* lines 551-618: the result is the pass as it ends; when raised is TRUE the
\* exception leaves the function and added_keywords is not returned
research_and_add_keywords(rs, inputs, dry_run) ==
    IF ~ResearchSwitchedOn(rs) THEN NoPass
    ELSE ResearchLoop(rs, inputs, 1, dry_run, NoPass)

---------------------------------------------------------------------------
(* New campaigns *)

\* the three platform calls of create_campaign_for_product, in order
CreationCalls == <<"create_campaign", "create_ad_group", "create_product_ad">>

\* lines 653-674: a dry run returns before the first call; a live run makes
\* the calls up to the n-th
CallsMade(dry_run, n) == IF dry_run THEN <<>> ELSE SubSeq(CreationCalls, 1, n)

\* Lines 639-681.  fails is the number of the call that raises (an exception
\* at one of the calls or in reading its result), 0 when none does.  The
\* result: what is returned (None, the dry-run entry, the created entry) and
\* the platform calls made.
create_campaign_for_product(rs, product, dry_run, fails) ==
    IF ~rs.auto_create_campaigns
    THEN [result |-> "None", asin |-> product.asin, calls |-> <<>>]
    ELSE IF dry_run THEN [result |-> "dry-run", asin |-> product.asin,
                          calls |-> CallsMade(dry_run, 0)]
    ELSE [result |-> IF fails = 0 THEN "created" ELSE "None",
          asin |-> product.asin,
          calls |-> [i \in DOMAIN CallsMade(dry_run, IF fails = 0 THEN 3 ELSE fails) |->
                       [op |-> CallsMade(dry_run, 3)[i], id |-> product.asin,
                        arg |-> product.sku]]]

---------------------------------------------------------------------------
(* Rounding *)

\* round(n / d) for d > 0: the nearest integer, either neighbour at a tie
RoundDiv(n, d) ==
    LET q == n \div d
        r == n % d
    IN  IF 2 * r < d THEN {q}
        ELSE IF 2 * r > d THEN {q + 1}
        ELSE {q, q + 1}

\* round(x, 4) of a ratio, in 1/10000; "inf" is written for float("inf") (line 836)
RoundRatio(x) ==
    IF x.inf THEN {[inf |-> TRUE, v |-> 0]}
    ELSE {[inf |-> FALSE, v |-> v] : v \in RoundDiv(x.n * 10000, x.d)}

---------------------------------------------------------------------------
(* Keyword bid optimization: one pass of main's loop over the keyword rows *)

\* The result of get_keywords and of the search for the row's keyword in it
\* (lines 811-818): the call raises, the keyword is not listed, or it is listed
\* with a bid (0 when it carries none).
LookupError == [kind |-> "error", bid |-> 0]

LookupAbsent == [kind |-> "absent", bid |-> 0]

Found(bid) == [kind |-> "found", bid |-> bid]

\* line 822: abs(new_bid - current_bid) > 0.01, new_bid in 1/BidScale cent and
\* current_bid in cents; the set of possible results.  The operands are binary
\* floating-point numbers: at a decimal distance of exactly 0.01 the result
\* depends on their representation errors (abs(0.25 - 0.26) is
\* 0.010000000000000009 and exceeds 0.01, abs(5.0 - 4.99) is
\* 0.009999999999999787 and does not); at any other distance here the errors
\* are far below the difference to 0.01.
OutsideDeadBand(new_bid, current_bid) ==
    LET delta == new_bid - current_bid * BidScale
        distance == IF delta < 0 THEN -delta ELSE delta
    IN  IF distance = BidScale THEN BOOLEAN ELSE {distance > BidScale}

\* Lines 804-841 for one row: the set of possible outcomes, each the entries
\* appended to bid_updates and to audit_lines, the result of decide_bid_change
\* when it was called, and whether an exception left the loop (compute_kpis at
\* line 808 is called outside any try).  mult_at_start is main's local
\* daypart_mult; current_hour is the clock when decide_bid_change runs.
KeywordIteration(rs, mult_at_start, row, lookup, current_hour) ==
    LET skip == [updates |-> <<>>, audits |-> <<>>, new_bid |-> None, raised |-> FALSE]
        k == compute_kpis(row)
        current_bid == lookup.bid
        new_bid == decide_bid_change(rs, k.ctr, k.acos, k.clicks, k.cost, k.sales,
                                     current_bid, current_hour)
    IN  IF row.keywordId.kind \in {"missing", "empty"} THEN {skip}
        ELSE IF k.raised THEN {[skip EXCEPT !.raised = TRUE]}
        ELSE IF lookup.kind # "found" THEN {skip}
        ELSE IF ~new_bid.some THEN {[skip EXCEPT !.new_bid = new_bid]}
        ELSE UNION {
            IF ~outside THEN {[skip EXCEPT !.new_bid = new_bid]}
            ELSE IF ~Parses(row.keywordId)
            THEN {[skip EXCEPT !.new_bid = new_bid, !.raised = TRUE]}
            ELSE { [updates |-> <<[keywordId |-> row.keywordId.v, bid |-> b]>>,
                    audits |-> <<[keyword_id |-> row.keywordId.v,
                                  old_bid |-> current_bid,
                                  new_bid |-> b,
                                  change |-> c,
                                  ctr |-> rc,
                                  acos |-> ra,
                                  clicks |-> k.clicks,
                                  cost |-> k.cost,
                                  sales |-> k.sales,
                                  daypart_mult |-> mult_at_start]>>,
                    new_bid |-> new_bid,
                    raised |-> FALSE] :
                   b \in RoundDiv(new_bid.v, BidScale),
                   c \in RoundDiv(new_bid.v - current_bid * BidScale, BidScale),
                   rc \in RoundRatio(k.ctr),
                   ra \in RoundRatio(k.acos) }
            : outside \in OutsideDeadBand(new_bid.v, current_bid) }

---------------------------------------------------------------------------
(* Inputs the functions are applied to *)

ClicksFields == {Missing, Empty, Num(9), Num(10)}

ImpressionsFields == {Missing, Empty, Num(3000), Num(5000)}

CostFields == {Missing, Empty, Num(499), Num(500), Num(900)}

SalesFields == {Missing, Empty, Num(1000), Num(2000), Num(3000)}

\* rows for compute_kpis: every field absent, empty or a number; the cost may
\* also be a text that is no number
Rows ==
    [clicks : ClicksFields, impressions : ImpressionsFields,
     cost : CostFields \cup {Text}, attributedSales14d : SalesFields]

\* keyword report rows for the bid decision
KeywordRows ==
    [keywordId : {Num(1)},
     clicks : ClicksFields \ {Empty}, impressions : ImpressionsFields \ {Empty},
     cost : CostFields \ {Empty}, attributedSales14d : SalesFields \ {Empty}]

\* campaign report rows for the campaign decision
CampaignRows ==
    [campaignId : {1},
     campaignStatus : {"enabled", "paused", "archived"},
     clicks : {Missing, Num(9), Num(10)}, impressions : {Num(3000)},
     cost : {Missing, Num(499), Num(500), Num(900)},
     attributedSales14d : {Missing, Num(1000), Num(2000)}]

\* current bids, in cents: 0 (no bid on the keyword), below, at and above the
\* default clamp range
Bids == {0, 20, 25, 26, 100, 500, 600}

\* sequences over S of length at most n
SeqsUpTo(S, n) == UNION { [1 .. m -> S] : m \in 0 .. n }

\* arguments of clamp
ClampArgs == {0, 24, 25, 26, 499, 500, 501}

\* a suggestion of get_keyword_suggestions, an existing keyword of get_keywords
Suggestion(stem, form, matchType) ==
    [keywordText |-> KeywordText(stem, form), matchType |-> matchType]

Keyword(stem, form) == [keywordText |-> KeywordText(stem, form)]

\* suggestions in the order the platform returns them: seven words, two of them
\* twice in different spellings
Pool ==
    << Suggestion(1, "lower", "broad"), Suggestion(1, "UPPER", "exact"),
       Suggestion(2, "lower", "broad"), Suggestion(3, "Title", "broad"),
       Suggestion(2, "Title", "broad"), Suggestion(4, "lower", "phrase"),
       Suggestion(5, "lower", "broad"), Suggestion(6, "UPPER", "broad"),
       Suggestion(7, "lower", "broad") >>

\* the lists of suggestions for an ad group: the beginnings and the ends of the
\* pool, and suggestions without text
SuggestionLists ==
    {SubSeq(Pool, 1, n) : n \in 0 .. Len(Pool)}
    \cup {SubSeq(Pool, n, Len(Pool)) : n \in 2 .. Len(Pool)}
    \cup {<<Suggestion(0, "lower", "broad")>>,
          <<Suggestion(0, "lower", "broad"), Suggestion(0, "lower", "broad")>>}

\* the keywords an ad group has
ExistingLists ==
    { <<>>,
      <<Keyword(1, "UPPER")>>,
      <<Keyword(2, "lower"), Keyword(2, "Title")>>,
      <<Keyword(3, "lower"), Keyword(4, "UPPER"), Keyword(7, "lower")>>,
      <<Keyword(0, "lower")>> }

\* ad groups: with both ids, and without campaign id
AdGroups ==
    { [adGroupId |-> Num(1), campaignId |-> Num(1)],
      [adGroupId |-> Num(1), campaignId |-> Missing] }

\* how create_keywords ends
CreateResults == {"raises", "all", "none"}

\* the most ad groups of a pass of research_and_add_keywords
MaxAdGroups == 2

\* What a pass can meet at an ad group: get_keywords raises; an ad group
\* without keywords, or with one or two, and three suggestions; an ad group
\* without suggestions; an ad group without campaign id
PassOptions ==
    { [campaignId |-> Num(1), fetch_ok |-> FALSE, existing_keywords |-> <<>>,
       suggestions |-> <<>>, created |-> "all"],
      [campaignId |-> Num(1), fetch_ok |-> TRUE, existing_keywords |-> <<>>,
       suggestions |-> <<>>, created |-> "all"],
      [campaignId |-> Missing, fetch_ok |-> TRUE, existing_keywords |-> <<>>,
       suggestions |-> SubSeq(Pool, 1, 3), created |-> "all"],
      [campaignId |-> Num(1), fetch_ok |-> TRUE,
       existing_keywords |-> <<Keyword(2, "lower"), Keyword(2, "Title")>>,
       suggestions |-> SubSeq(Pool, 1, 3), created |-> "all"] }
    \cup { [campaignId |-> Num(1), fetch_ok |-> TRUE, existing_keywords |-> <<>>,
             suggestions |-> SubSeq(Pool, 1, 3), created |-> c] : c \in CreateResults }
    \cup { [campaignId |-> Num(1), fetch_ok |-> TRUE,
             existing_keywords |-> <<Keyword(1, "UPPER")>>,
             suggestions |-> SubSeq(Pool, 1, 3), created |-> c] : c \in {"raises", "all"} }

\* the ad groups of a pass, numbered in order, with what the pass meets at each
PassInputs(options) ==
    [i \in DOMAIN options |->
       AdGroupInput([adGroupId |-> Num(i), campaignId |-> options[i].campaignId],
                    options[i].fetch_ok, options[i].existing_keywords,
                    options[i].suggestions, options[i].created)]

\* The entry of campaign_performance main builds from a campaign report row
\* (lines 761-769)
PerformanceOf(row) ==
    LET k == compute_kpis(row)
    IN  [acos |-> k.acos, ctr |-> k.ctr, cost |-> k.cost, sales |-> k.sales,
         clicks |-> k.clicks, state |-> row.campaignStatus]

---------------------------------------------------------------------------
(* Report polling *)

\* line 360: the defaults of poll_report's interval and timeout_s, in seconds
DefaultInterval == 5

DefaultTimeout == 180

\* the most, in seconds, by which a status request and the sleep after it
\* together exceed the interval
MaxDelay == 1

Delays == 0 .. MaxDelay

\* What a status request (lines 367-370) can yield: the request raises (a
\* transport error or raise_for_status), or the response carries a status, or
\* none; a SUCCESS response carries a location, or lacks it.
StatusResponses ==
    {"request_error", "SUCCESS", "SUCCESS_without_location", "FAILURE",
     "CANCELLED", "IN_PROGRESS", "no_status"}

\* the "status" of a response, data.get("status"), line 370
StatusOf(response) ==
    IF response = "SUCCESS_without_location" THEN "SUCCESS"
    ELSE IF response = "no_status" THEN "None"
    ELSE response

\* no report has been asked for
NoReports == [campaigns |-> "none", keywords |-> "none"]

\* no poll_report in progress
PollIdle ==
    [state |-> "idle", interval |-> 0, deadline |-> 0, now |-> 0,
     response |-> "none", outcome |-> "none", late |-> FALSE]

\* lines 362-364: poll_report starts; the clock counts from its start, so
\* deadline = time.time() + timeout_s is timeout_s
PollStart(interval, timeout_s) ==
    [PollIdle EXCEPT !.state = "polling", !.interval = interval,
                     !.deadline = timeout_s]

\* line 376 reads the status as still pending
StillPending_failure_only(status) == status # "FAILURE"

\* lines 372-375: neither branch is taken
StillPending(status) == status \notin {"SUCCESS", "FAILURE", "CANCELLED"}

\* how poll_report ends on a response, lines 368-375: "ERROR" is an exception
\* other than the RuntimeError of line 375 leaving it (requests.get or
\* raise_for_status raises, or data["location"] is absent)
OutcomeOf(response) ==
    IF response = "request_error" THEN "ERROR"
    ELSE IF StatusOf(response) = "SUCCESS"
         THEN IF response = "SUCCESS" THEN "SUCCESS" ELSE "ERROR"
    ELSE IF StillPending(StatusOf(response)) THEN "none"
    ELSE "FAILURE"

\* the loop test with <= in place of <
BeforeDeadline_leq(now, deadline) == now <= deadline

\* line 366: time.time() < deadline
BeforeDeadline(now, deadline) == now < deadline

\* Lines 366-377, one iteration of the loop: the clock is before the deadline,
\* the status is requested, and the response ends poll_report or is followed
\* by the sleep; request and sleep together take interval + e seconds.  late
\* records that a request was issued with the clock at or past the deadline.
PollRequest ==
    /\ poll.state = "polling"
    /\ BeforeDeadline(poll.now, poll.deadline)
    /\ \E response \in StatusResponses, e \in Delays :
         LET outcome == OutcomeOf(response)
         IN  poll' = [poll EXCEPT
                        !.response = response,
                        !.outcome = outcome,
                        !.late = poll.late \/ poll.now >= poll.deadline,
                        !.state = IF outcome = "none" THEN "polling" ELSE "done",
                        !.now = IF outcome = "none"
                                THEN poll.now + poll.interval + e
                                ELSE poll.now]
    /\ UNCHANGED <<rules, hour, ticks, call, pc, args, daypart_mult,
                   campaign_performance, campaign_index, campaign_actions,
                   keyword_rows, bid_updates, audit_lines, audit_file, calls, called,
                   reports, server>>

\* Lines 366 and 379: the clock has reached the deadline, the loop ends and
\* TimeoutError is raised
PollTimeout ==
    /\ poll.state = "polling"
    /\ ~BeforeDeadline(poll.now, poll.deadline)
    /\ poll' = [poll EXCEPT !.state = "done", !.outcome = "TIMEOUT"]
    /\ UNCHANGED <<rules, hour, ticks, call, pc, args, daypart_mult,
                   campaign_performance, campaign_index, campaign_actions,
                   keyword_rows, bid_updates, audit_lines, audit_file, calls, called,
                   reports, server>>

---------------------------------------------------------------------------
(* server.py: the verification thread and GET /verify *)

\* the most GET /verify requests of a run of the server
MaxRequests == 2

\* no response has been written
NoResponse == [status |-> "none"]

\* The class variables of RepositoryServerHandler as the class defines them
\* (lines 23-25), with no thread started: thread is the position of
\* run_verification_background, handler the position of do_GET in the /verify
\* branch, began the position of the thread when the request in progress
\* began, timestamp_read what the handler read at line 58, requests the
\* number of requests begun, response the latest response written.
NoServer ==
    [verification_results |-> "None",
     verification_timestamp |-> "None",
     verification_running |-> FALSE,
     thread |-> "off",
     handler |-> "idle",
     began |-> "off",
     timestamp_read |-> "None",
     requests |-> 0,
     response |-> NoResponse]

---------------------------------------------------------------------------
(* services/optimizer/app.py: the dry-run setting of POST /run *)

\* What a key of the JSON body, or an environment variable, can hold: nothing
\* (the key is absent), null, a boolean, a number, or a string.  A string is
\* its text in lower case without the surrounding blanks (word), whether
\* blanks surround it, and whether it is written in upper case.
Absent == [kind |-> "absent"]
JsonNull == [kind |-> "null"]
JsonBool(b) == [kind |-> "bool", v |-> b]
JsonStr(word, padded, upper) ==
    [kind |-> "str", word |-> word, padded |-> padded, upper |-> upper]

\* dict.get(key) (line 106): None for an absent key, else the value
Get(value) == IF value.kind = "absent" THEN JsonNull ELSE value

\* Python's truth value of an object: None, False, 0 and "" are false
Truthy(value) ==
    CASE value.kind = "null" -> FALSE
      [] value.kind = "bool" -> value.v
      [] value.kind = "num" -> value.v # 0
      [] value.kind = "str" -> value.word # "" \/ value.padded

\* a or b (line 106): a when a is true, else b
Or(a, b) == IF Truthy(a) THEN a ELSE b

\* str(value).strip().lower() (line 46) of a number or a string
StripLower(value) ==
    IF value.kind = "num"
    THEN CASE value.v = 0 -> "0" [] value.v = 1 -> "1" [] OTHER -> "other"
    ELSE value.word

\* the texts _as_bool takes for true (line 46)
TrueTexts == {"1", "true", "t", "yes", "y"}

\* lines 41-46
_as_bool(value, default) ==
    IF value.kind = "null" THEN default
    ELSE IF value.kind = "bool" THEN value.v
    ELSE StripLower(value) \in TrueTexts

\* line 52: DEFAULT_DRY_RUN, from the environment variable PPC_DRY_RUN
DEFAULT_DRY_RUN(env) == _as_bool(Get(env), FALSE)

\* line 106: the dry_run that run_optimizer passes to PPCAutomation (line 129)
\* for a body with the keys dry_run and dryRun
run_optimizer(dry_run, dryRun, env) ==
    _as_bool(Or(Get(dry_run), Get(dryRun)), DEFAULT_DRY_RUN(env))

---------------------------------------------------------------------------
(* Application of the functions to drawn inputs *)

\* no function has been applied yet
Idle == [fn |-> "none"]

\* a command line without options
NoArgs ==
    [dry_run |-> FALSE, skip_campaigns |-> FALSE, skip_bids |-> FALSE,
     skip_keywords |-> FALSE, skip_new_campaigns |-> FALSE]

\* main's variables while no run is in progress
NoRun ==
    /\ ticks = 0
    /\ pc = "none"
    /\ args = NoArgs
    /\ daypart_mult = 100
    /\ campaign_performance = <<>>
    /\ campaign_index = 0
    /\ campaign_actions = <<>>
    /\ keyword_rows = <<>>
    /\ bid_updates = <<>>
    /\ audit_lines = <<>>
    /\ audit_file = <<>>
    /\ calls = <<>>
    /\ called = {}
    /\ poll = PollIdle
    /\ reports = NoReports

InitFn ==
    /\ rules \in RulesSet
    /\ hour \in 0 .. 23
    /\ call = Idle
    /\ NoRun
    /\ server = NoServer

FnComputeKpis ==
    /\ pc = "none"
    /\ call = Idle
    /\ \E row \in Rows :
         call' = [fn |-> "compute_kpis", row |-> row, out |-> compute_kpis(row)]
    /\ UNCHANGED <<rules, hour, run_vars, server>>

FnDayparting ==
    /\ pc = "none"
    /\ call = Idle
    /\ call' = [fn |-> "get_dayparting_multiplier",
                out |-> get_dayparting_multiplier(rules, hour)]
    /\ UNCHANGED <<rules, hour, run_vars, server>>

FnClamp ==
    /\ pc = "none"
    /\ call = Idle
    /\ \E v \in ClampArgs :
         call' = [fn |-> "clamp", v |-> v,
                  out |-> clamp(v, rules.min_bid, rules.max_bid)]
    /\ UNCHANGED <<rules, hour, run_vars, server>>

\* compute_kpis, decide_bid_change and main's use of the result (lines 808-841)
\* for one keyword row whose keyword is listed with bid
FnKeywordIteration ==
    /\ pc = "none"
    /\ call = Idle
    /\ \E row \in KeywordRows, bid \in Bids :
         LET k == compute_kpis(row)
             mult == get_dayparting_multiplier(rules, hour)
         IN  \E o \in KeywordIteration(rules, mult, row, Found(bid), hour) :
               call' = [fn |-> "keyword_iteration",
                        ctr |-> k.ctr, acos |-> k.acos, clicks |-> k.clicks,
                        cost |-> k.cost, sales |-> k.sales, current_bid |-> bid,
                        mult |-> mult, new_bid |-> o.new_bid,
                        updates |-> o.updates, audits |-> o.audits]
    /\ UNCHANGED <<rules, hour, run_vars, server>>

\* main's construction of a campaign's entry and manage_campaigns_by_acos's
\* pass over it
FnCampaignIteration ==
    /\ pc = "none"
    /\ call = Idle
    /\ \E row \in CampaignRows, dry \in BOOLEAN, ok \in BOOLEAN :
         LET perf == PerformanceOf(row)
             o == CampaignIteration(rules, row.campaignId, perf, dry, ok)
         IN  call' = [fn |-> "campaign_iteration", perf |-> perf, dry_run |-> dry,
                      update_ok |-> ok, actions |-> o.actions, calls |-> o.calls]
    /\ UNCHANGED <<rules, hour, run_vars, server>>

\* research_and_add_keywords on a list of one ad group
FnResearch ==
    /\ pc = "none"
    /\ call = Idle
    /\ \E ad_group \in AdGroups, existing_keywords \in ExistingLists,
          suggestions \in SuggestionLists, dry \in BOOLEAN, created \in CreateResults :
         LET o == IF ResearchSwitchedOn(rules)
                  THEN ResearchAdGroup(rules, ad_group, existing_keywords,
                                       suggestions, dry, created)
                  ELSE [fetched |-> FALSE, new_keywords |-> <<>>, calls |-> <<>>,
                        added |-> <<>>, raised |-> FALSE]
         IN  /\ dry => created = "none"
             /\ call' = [fn |-> "research_and_add_keywords",
                          ad_group |-> ad_group,
                          existing_keywords |-> existing_keywords,
                          suggestions |-> suggestions,
                          dry_run |-> dry, created |-> created,
                          fetched |-> o.fetched, new_keywords |-> o.new_keywords,
                          calls |-> o.calls, added |-> o.added, raised |-> o.raised]
    /\ UNCHANGED <<rules, hour, run_vars, server>>

\* research_and_add_keywords on a list of ad groups
FnResearchPass ==
    /\ pc = "none"
    /\ call = Idle
    /\ \E options \in SeqsUpTo(PassOptions, MaxAdGroups), dry \in BOOLEAN :
         LET inputs == PassInputs(options)
             pass == research_and_add_keywords(rules, inputs, dry)
         IN  call' = [fn |-> "research_pass", inputs |-> inputs, dry_run |-> dry,
                      added_keywords |-> pass.added_keywords, calls |-> pass.calls,
                      log |-> pass.log, raised |-> pass.raised]
    /\ UNCHANGED <<rules, hour, run_vars, server>>

\* create_campaign_for_product on a product
FnCreateCampaign ==
    /\ pc = "none"
    /\ call = Idle
    /\ \E asin \in 1 .. 2, dry \in BOOLEAN, fails \in 0 .. 3 :
         LET product == [asin |-> asin, sku |-> asin]
             o == create_campaign_for_product(rules, product, dry, fails)
         IN  call' = [fn |-> "create_campaign_for_product", product |-> product,
                      dry_run |-> dry, fails |-> fails,
                      result |-> o.result, calls |-> o.calls]
    /\ UNCHANGED <<rules, hour, run_vars, server>>

\* the values of the keys dry_run and dryRun in a request body
BodyValues ==
    { Absent, JsonNull, JsonBool(TRUE), JsonBool(FALSE), Num(0), Num(1),
      JsonStr("true", FALSE, FALSE), JsonStr("true", TRUE, TRUE),
      JsonStr("false", FALSE, FALSE), JsonStr("", FALSE, FALSE),
      JsonStr("", TRUE, FALSE) }

\* the values of the environment variable PPC_DRY_RUN
EnvValues ==
    { Absent, JsonStr("true", FALSE, FALSE), JsonStr("true", TRUE, TRUE),
      JsonStr("false", FALSE, FALSE) }

\* POST /run, or /optimize (lines 168-170), with a JSON object as body
FnRunOptimizer ==
    /\ pc = "none"
    /\ call = Idle
    /\ \E dry_run \in BodyValues, dryRun \in BodyValues, env \in EnvValues :
         call' = [fn |-> "run_optimizer", dry_run_key |-> dry_run,
                  dryRun_key |-> dryRun, env |-> env,
                  default |-> DEFAULT_DRY_RUN(env),
                  dry_run |-> run_optimizer(dry_run, dryRun, env)]
    /\ UNCHANGED <<rules, hour, run_vars, server>>

NextFn ==
    \/ FnRunOptimizer
    \/ FnResearch
    \/ FnCreateCampaign
    \/ FnResearchPass
    \/ FnComputeKpis
    \/ FnDayparting
    \/ FnClamp
    \/ FnKeywordIteration
    \/ FnCampaignIteration

SpecFn == InitFn /\ [][NextFn]_vars

---------------------------------------------------------------------------
(* main: one run of the optimizer *)

\* bounds of a run
MaxCampaigns == 2

MaxKeywordRows == 2

MaxTicks == 1

\* hours a run starts in: the last off-peak hour before the peak, the last peak hour
StartHours == {8, 20}

\* rows of the campaign report of a run: an enabled campaign with a high ACOS,
\* a paused one with a low ACOS, an enabled one with a high ACOS and few clicks,
\* and a row whose clicks are no number
RunCampaignRows ==
    { [campaignId |-> id, campaignStatus |-> k.st, clicks |-> k.clicks,
       impressions |-> Num(5000), cost |-> Num(900), attributedSales14d |-> k.sales] :
      id \in 1 .. 2,
      k \in { [st |-> "enabled", clicks |-> Num(20), sales |-> Num(1000)],
              [st |-> "paused", clicks |-> Num(20), sales |-> Num(3000)],
              [st |-> "enabled", clicks |-> Num(9), sales |-> Num(1000)] } }
    \cup { [campaignId |-> 1, campaignStatus |-> "enabled", clicks |-> Text,
             impressions |-> Num(5000), cost |-> Num(900),
             attributedSales14d |-> Num(1000)] }

\* rows of the keyword report of a run: a low click-through rate, a low ACOS, too
\* little data, an ACOS between the thresholds, a row without keyword id, and a
\* row whose cost is no number
RunKeywordRows ==
    { [keywordId |-> Num(1), clicks |-> Num(20), impressions |-> Num(20000),
       cost |-> Num(600), attributedSales14d |-> Num(5000)],
      [keywordId |-> Num(2), clicks |-> Num(12), impressions |-> Num(1000),
       cost |-> Num(600), attributedSales14d |-> Num(3000)],
      [keywordId |-> Num(3), clicks |-> Num(5), impressions |-> Num(1000),
       cost |-> Num(200), attributedSales14d |-> Missing],
      [keywordId |-> Num(4), clicks |-> Num(20), impressions |-> Num(1000),
       cost |-> Num(800), attributedSales14d |-> Num(2000)],
      [keywordId |-> Missing, clicks |-> Num(20), impressions |-> Num(1000),
       cost |-> Num(800), attributedSales14d |-> Num(1000)],
      [keywordId |-> Num(5), clicks |-> Num(20), impressions |-> Num(1000),
       cost |-> Text, attributedSales14d |-> Num(1000)] }

\* what the lookup of a row's keyword can yield in a run
RunLookups == {LookupError, LookupAbsent, Found(26), Found(50)}

\* The map main builds from the campaign rows (lines 758-769), as the sequence
\* of its entries in insertion order: a later row of a campaign already in the
\* map replaces the entry's value and keeps its place.
RECURSIVE BuildPerformance(_)
BuildPerformance(rows) ==
    IF rows = <<>> THEN <<>>
    ELSE LET n == Len(rows)
             before == BuildPerformance(SubSeq(rows, 1, n - 1))
             entry == [campaign_id |-> rows[n].campaignId,
                       perf |-> PerformanceOf(rows[n])]
         IN  IF \E i \in 1 .. Len(before) : before[i].campaign_id = entry.campaign_id
             THEN [i \in 1 .. Len(before) |->
                     IF before[i].campaign_id = entry.campaign_id
                     THEN entry ELSE before[i]]
             ELSE Append(before, entry)

\* Lines 758-769 on the campaign reports of a run: compute_kpis (line 761)
\* raises on some row, or the map is built
RunCampaignReports ==
    { [raised |-> \E i \in 1 .. Len(campaign_rows) :
                    compute_kpis(campaign_rows[i]).raised,
       campaign_performance |-> BuildPerformance(campaign_rows)] :
      campaign_rows \in SeqsUpTo(RunCampaignRows, MaxCampaigns) }

\* The command lines of a run (lines 690-702): every combination of --dry-run,
\* --skip-campaigns and --skip-bids; --skip-keywords and --skip-new-campaigns
\* are given on runs that skip both earlier steps.
RunArgs ==
    { a \in [dry_run : BOOLEAN, skip_campaigns : BOOLEAN, skip_bids : BOOLEAN,
              skip_keywords : BOOLEAN, skip_new_campaigns : BOOLEAN] :
        a.skip_keywords \/ a.skip_new_campaigns => a.skip_campaigns /\ a.skip_bids }

Init ==
    /\ rules = DEFAULT_RULES
    /\ hour \in StartHours
    /\ ticks = 0
    /\ call = Idle
    /\ pc = "start"
    /\ args \in RunArgs
    /\ daypart_mult = 100
    /\ campaign_performance = <<>>
    /\ campaign_index = 0
    /\ campaign_actions = <<>>
    /\ keyword_rows = <<>>
    /\ bid_updates = <<>>
    /\ audit_lines = <<>>
    /\ audit_file = <<>>
    /\ calls = <<>>
    /\ called = {}
    /\ poll = PollIdle
    /\ reports = NoReports
    /\ server = NoServer

\* the clock passes to the next hour while the run is in progress; the run
\* reads the hour for the last time in step 3
Tick ==
    /\ pc \notin {"none", "aborted", "step4", "step5", "done"}
    /\ ticks < MaxTicks
    /\ hour' = (hour + 1) % 24
    /\ ticks' = ticks + 1
    /\ UNCHANGED <<rules, call, pc, args, daypart_mult, campaign_performance,
                   campaign_index, campaign_actions, keyword_rows, bid_updates,
                   audit_lines, audit_file, calls, called,
                   poll, reports, server>>

\* lines 737-744: the rule set and the dayparting multiplier of the start
Start ==
    /\ pc = "start"
    /\ daypart_mult' = get_dayparting_multiplier(rules, hour)
    /\ pc' = "step1"
    /\ UNCHANGED <<rules, hour, ticks, call, args, campaign_performance,
                   campaign_index, campaign_actions, keyword_rows, bid_updates,
                   audit_lines, audit_file, calls, called,
                   poll, reports, server>>

\* what download_report (lines 382-404) can come to besides a list of rows: the
\* request raises, or the payload is neither a ZIP nor a gzip archive nor UTF-8
\* text and decoding it raises
DownloadFailures == {"download_error", "undecodable"}

\* How the fetch of a report ends when poll_report has ended without a
\* location (lines 753-755, 795-797)
PollFailure(outcome) ==
    IF outcome = "FAILURE" THEN "failed_status"
    ELSE IF outcome = "TIMEOUT" THEN "timeout"
    ELSE "status_error"

\* the ways create_sp_report (lines 350-356) ends: it returns the report id, the
\* response holds no id and RuntimeError is raised, or the request raises
CreateOutcomes == {"id", "no_id", "create_error"}

\* an except clause that catches RuntimeError only
Caught_runtime_error_only(failure) == failure \in {"no_id", "failed_status"}

\* lines 753 and 795: "except Exception" catches every exception of the fetch
\* (RuntimeError, TimeoutError, HTTPError, KeyError, UnicodeDecodeError, ...)
Caught(failure) == TRUE

\* the fetch of a report that ended in an exception
Failed(outcome) == outcome \notin {"none", "ok"}

\* Lines 748-750: step 1 asks for the campaign report.  With an id poll_report
\* starts; without, the exception is caught at line 753, campaign_rows is empty
\* and so is the map built at lines 758-769.
CreateCampaignReport ==
    /\ pc = "step1"
    /\ \E created \in CreateOutcomes :
         IF created = "id"
         THEN /\ poll' = PollStart(DefaultInterval, DefaultTimeout)
              /\ pc' = "poll1"
              /\ UNCHANGED reports
         ELSE /\ poll' = PollIdle
              /\ pc' = IF Caught(created) THEN "step2" ELSE "aborted"
              /\ reports' = [reports EXCEPT !.campaigns = created]
    /\ UNCHANGED <<rules, hour, ticks, call, args, daypart_mult,
                   campaign_performance, campaign_index, campaign_actions,
                   keyword_rows, bid_updates, audit_lines, audit_file, calls, called,
                   server>>

\* Lines 750-770: poll_report has ended.  With a location the report is
\* downloaded and arrives with some rows, or download_report raises; any
\* exception leaves campaign_rows empty (lines 753-755); the map is built.
\* compute_kpis (line 761) is called outside any try: when it raises, the
\* exception leaves main and the run ends (lines 939-943).
FetchCampaignReport ==
    /\ pc = "poll1"
    /\ poll.state = "done"
    /\ IF poll.outcome # "SUCCESS"
       THEN /\ reports' = [reports EXCEPT !.campaigns = PollFailure(poll.outcome)]
            /\ pc' = IF Caught(PollFailure(poll.outcome)) THEN "step2" ELSE "aborted"
            /\ campaign_performance' = <<>>
       ELSE \/ \E failure \in DownloadFailures :
                 /\ reports' = [reports EXCEPT !.campaigns = failure]
                 /\ pc' = IF Caught(failure) THEN "step2" ELSE "aborted"
                 /\ campaign_performance' = <<>>
            \/ \E built \in RunCampaignReports :
                 /\ reports' = [reports EXCEPT !.campaigns = "ok"]
                 /\ IF built.raised
                    THEN /\ pc' = "aborted"
                         /\ campaign_performance' = <<>>
                    ELSE /\ pc' = "step2"
                         /\ campaign_performance' = built.campaign_performance
    /\ poll' = PollIdle
    /\ campaign_index' = 0
    /\ campaign_actions' = <<>>
    /\ UNCHANGED <<rules, hour, ticks, call, args, daypart_mult, keyword_rows,
                   bid_updates, audit_lines, audit_file, calls, called, server>>

\* manage_campaigns_by_acos returns at once when both switches are off (line 491)
CampaignsSwitchedOn(rs) == rs.auto_activate_campaigns \/ rs.auto_deactivate_campaigns

\* no except clause around update_campaign_state
ActuationCaught_never(campaign_id) == FALSE

\* lines 515 and 537: "except Exception" around update_campaign_state catches
\* the failure of the call for any campaign
ActuationCaught(campaign_id) == TRUE

\* lines 494-545: manage_campaigns_by_acos visits the next entry of the map;
\* update_campaign_state, when called, returns or raises
ManageCampaign ==
    /\ pc = "step2"
    /\ ~args.skip_campaigns
    /\ CampaignsSwitchedOn(rules)
    /\ campaign_index < Len(campaign_performance)
    /\ LET e == campaign_performance[campaign_index + 1]
       IN  \E ok \in BOOLEAN :
             LET o == CampaignIteration(rules, e.campaign_id, e.perf, args.dry_run, ok)
             IN  /\ campaign_actions' = campaign_actions \o o.actions
                 /\ calls' = calls \o o.calls
                 /\ pc' = IF o.calls # <<>> /\ ~ok /\ ~ActuationCaught(e.campaign_id)
                          THEN "aborted" ELSE pc
    /\ campaign_index' = campaign_index + 1
    /\ UNCHANGED <<rules, hour, ticks, call, args, daypart_mult,
                   campaign_performance, keyword_rows, bid_updates, audit_lines,
                   audit_file, called, poll, reports, server>>

\* The operations named in a sequence of calls
Operations(cs) == { cs[i].op : i \in 1 .. Len(cs) }

\* manage_campaigns_by_acos has visited every entry, or both switches are off
CampaignsDone ==
    ~CampaignsSwitchedOn(rules) \/ campaign_index = Len(campaign_performance)

\* Step 2 ends: --skip-campaigns leaves it out (line 773), or
\* manage_campaigns_by_acos returns (line 492 or 547) and main reports the
\* actions (lines 777-785).  main reads neither the map nor the actions again.
EndCampaigns ==
    /\ pc = "step2"
    /\ args.skip_campaigns \/ CampaignsDone
    /\ pc' = "step3"
    /\ campaign_performance' = <<>>
    /\ campaign_index' = 0
    /\ campaign_actions' = <<>>
    /\ called' = called \cup Operations(calls)
    /\ calls' = <<>>
    /\ reports' = [reports EXCEPT
                     !.campaigns = IF Failed(reports.campaigns) THEN "failed" ELSE "ok"]
    /\ UNCHANGED <<rules, hour, ticks, call, args, daypart_mult,
                   keyword_rows, bid_updates, audit_lines, audit_file, poll,
                   server>>

\* line 788: --skip-bids leaves step 3 out
SkipBids ==
    /\ pc = "step3"
    /\ args.skip_bids
    /\ pc' = "step4"
    /\ UNCHANGED <<rules, hour, ticks, call, args, daypart_mult,
                   campaign_performance, campaign_index, campaign_actions,
                   keyword_rows, bid_updates, audit_lines, audit_file, calls, called,
                   poll, reports, server>>

\* Lines 790-792: step 3 asks for the keyword report.  With an id poll_report
\* starts; without, the exception is caught at line 795 and keyword_rows is
\* empty; the two lists are created at lines 800-801.
CreateKeywordReport ==
    /\ pc = "step3"
    /\ ~args.skip_bids
    /\ \E created \in CreateOutcomes :
         IF created = "id"
         THEN /\ poll' = PollStart(DefaultInterval, DefaultTimeout)
              /\ pc' = "poll3"
              /\ UNCHANGED reports
         ELSE /\ poll' = PollIdle
              /\ pc' = IF Caught(created) THEN "bids" ELSE "aborted"
              /\ reports' = [reports EXCEPT !.keywords = created]
    /\ keyword_rows' = <<>>
    /\ bid_updates' = <<>>
    /\ audit_lines' = <<>>
    /\ UNCHANGED <<rules, hour, ticks, call, args, daypart_mult,
                   campaign_performance, campaign_index, campaign_actions,
                   audit_file, calls, called, server>>

\* Lines 792-801: poll_report has ended.  With a location the report is
\* downloaded and arrives with some rows, or download_report raises; any
\* exception leaves keyword_rows empty (lines 795-797).
FetchKeywordReport ==
    /\ pc = "poll3"
    /\ poll.state = "done"
    /\ IF poll.outcome # "SUCCESS"
       THEN /\ reports' = [reports EXCEPT !.keywords = PollFailure(poll.outcome)]
            /\ pc' = IF Caught(PollFailure(poll.outcome)) THEN "bids" ELSE "aborted"
            /\ keyword_rows' = <<>>
       ELSE \/ \E failure \in DownloadFailures :
                 /\ reports' = [reports EXCEPT !.keywords = failure]
                 /\ pc' = IF Caught(failure) THEN "bids" ELSE "aborted"
                 /\ keyword_rows' = <<>>
            \/ /\ reports' = [reports EXCEPT !.keywords = "ok"]
               /\ pc' = "bids"
               /\ keyword_rows' \in SeqsUpTo(RunKeywordRows, MaxKeywordRows)
    /\ poll' = PollIdle
    /\ bid_updates' = <<>>
    /\ audit_lines' = <<>>
    /\ UNCHANGED <<rules, hour, ticks, call, args, daypart_mult,
                   campaign_performance, campaign_index, campaign_actions,
                   audit_file, calls, called, server>>

\* lines 803-841: the loop visits the next keyword row; an exception that
\* leaves the loop leaves main and the run ends (lines 939-943)
ProcessKeywordRow ==
    /\ pc = "bids"
    /\ keyword_rows # <<>>
    /\ \E lookup \in RunLookups :
         \E o \in KeywordIteration(rules, daypart_mult, Head(keyword_rows), lookup, hour) :
            /\ bid_updates' = bid_updates \o o.updates
            /\ audit_lines' = audit_lines \o o.audits
            /\ call' = [fn |-> "keyword_iteration", row |-> Head(keyword_rows),
                        lookup |-> lookup,
                        mult |-> get_dayparting_multiplier(rules, hour),
                        new_bid |-> o.new_bid,
                        updates |-> o.updates, audits |-> o.audits]
            /\ pc' = IF o.raised THEN "aborted" ELSE pc
    /\ keyword_rows' = Tail(keyword_rows)
    /\ UNCHANGED <<rules, hour, ticks, args, daypart_mult,
                   campaign_performance, campaign_index, campaign_actions,
                   audit_file, calls, called,
                   poll, reports, server>>

\* the batch pushed whatever the mode of the run
Pushes_always(dry_run) == TRUE

\* line 845: "if not args.dry_run"
Pushes(dry_run) == ~dry_run

\* lines 843-862: the batch is pushed, unless it is empty or the run is a dry
\* run; update_keyword_bids returns or raises, and either way the run goes on
PushBidUpdates ==
    /\ pc = "bids"
    /\ keyword_rows = <<>>
    /\ calls' = IF bid_updates # <<>> /\ Pushes(args.dry_run)
                THEN Append(calls, [op |-> "update_keyword_bids", id |-> 0,
                                    arg |-> bid_updates])
                ELSE calls
    /\ pc' = "audit"
    /\ UNCHANGED <<rules, hour, ticks, call, args, daypart_mult,
                   campaign_performance, campaign_index, campaign_actions,
                   keyword_rows, bid_updates, audit_lines, audit_file, called,
                   poll, reports, server>>

\* lines 864-873: the audit file is written when there are audit lines
WriteAudit ==
    /\ pc = "audit"
    /\ audit_file' = audit_lines
    /\ pc' = "step4"
    /\ called' = called \cup Operations(calls)
    /\ calls' = <<>>
    /\ UNCHANGED <<rules, hour, ticks, call, args, daypart_mult,
                   campaign_performance, campaign_index, campaign_actions,
                   keyword_rows, bid_updates, audit_lines,
                   poll, reports, server>>

\* line 876: --skip-keywords leaves step 4 out
SkipKeywords ==
    /\ pc = "step4"
    /\ args.skip_keywords
    /\ pc' = "step5"
    /\ UNCHANGED <<rules, hour, ticks, call, args, daypart_mult,
                   campaign_performance, campaign_index, campaign_actions,
                   keyword_rows, bid_updates, audit_lines, audit_file, calls, called,
                   poll, reports, server>>

\* a pass over one ad group without keywords and with three suggestions
FreshGroup(created) ==
    [campaignId |-> Num(1), fetch_ok |-> TRUE, existing_keywords |-> <<>>,
     suggestions |-> SubSeq(Pool, 1, 3), created |-> created]

\* an ad group whose keywords cannot be fetched
UnfetchedGroup == [FreshGroup("all") EXCEPT !.fetch_ok = FALSE]

\* What step 4 of a run meets: no ad group; one whose batch is created; two,
\* with the creation failing for the first; two, with get_keywords failing for
\* the second
RunAdGroups ==
    { <<>>,
      <<FreshGroup("all")>>,
      <<FreshGroup("raises"), FreshGroup("all")>>,
      <<FreshGroup("all"), UnfetchedGroup>> }

\* What research_and_add_keywords does in step 4 under the rules of the run
\* (DEFAULT_RULES, see Init), for every list of ad groups and both modes
RunPasses ==
    { LET inputs == PassInputs(options)
          pass == research_and_add_keywords(DEFAULT_RULES, inputs, dry)
      IN  [fn |-> "research_pass", inputs |-> inputs, dry_run |-> dry,
           added_keywords |-> pass.added_keywords, calls |-> pass.calls,
           log |-> pass.log, raised |-> pass.raised] :
        options \in RunAdGroups, dry \in BOOLEAN }

\* Lines 876-891, step 4: get_ad_groups raises, or research_and_add_keywords
\* runs over the ad groups and returns or raises; every exception is caught at
\* line 889 and the run goes on.
KeywordResearch ==
    /\ pc = "step4"
    /\ ~args.skip_keywords
    /\ \/ /\ call' = [fn |-> "get_ad_groups", raised |-> TRUE]
          /\ UNCHANGED called
       \/ \E pass \in RunPasses :
            /\ pass.dry_run = args.dry_run
            /\ call' = pass
            /\ called' = called \cup Operations(pass.calls)
    /\ pc' = "step5"
    /\ UNCHANGED <<rules, hour, ticks, args, daypart_mult,
                   campaign_performance, campaign_index, campaign_actions,
                   keyword_rows, bid_updates, audit_lines, audit_file, calls,
                   poll, reports, server>>

\* line 895: --skip-new-campaigns leaves step 5 out
SkipNewCampaigns ==
    /\ pc = "step5"
    /\ args.skip_new_campaigns
    /\ pc' = "done"
    /\ UNCHANGED <<rules, hour, ticks, call, args, daypart_mult,
                   campaign_performance, campaign_index, campaign_actions,
                   keyword_rows, bid_updates, audit_lines, audit_file, calls, called,
                   poll, reports, server>>

\* Lines 895-916, step 5: find_products_without_campaigns (lines 622-636)
\* fetches the campaigns, the ad groups and the product ads, which raises or
\* not, and returns the empty list at line 636; with no product
\* create_campaign_for_product is not called.  An exception is caught at line
\* 914.
NewCampaigns ==
    /\ pc = "step5"
    /\ ~args.skip_new_campaigns
    /\ \E raised \in BOOLEAN :
         call' = [fn |-> "find_products_without_campaigns", raised |-> raised,
                  products |-> <<>>]
    /\ pc' = "done"
    /\ UNCHANGED <<rules, hour, ticks, args, daypart_mult,
                   campaign_performance, campaign_index, campaign_actions,
                   keyword_rows, bid_updates, audit_lines, audit_file, calls, called,
                   poll, reports, server>>

Next ==
    \/ Tick
    \/ Start
    \/ CreateCampaignReport
    \/ PollRequest
    \/ PollTimeout
    \/ FetchCampaignReport
    \/ ManageCampaign
    \/ EndCampaigns
    \/ SkipBids
    \/ CreateKeywordReport
    \/ FetchKeywordReport
    \/ ProcessKeywordRow
    \/ PushBidUpdates
    \/ WriteAudit
    \/ SkipKeywords
    \/ KeywordResearch
    \/ SkipNewCampaigns
    \/ NewCampaigns

Spec == Init /\ [][Next]_vars

---------------------------------------------------------------------------
(* poll_report on its own *)

\* the intervals and timeouts poll_report is called with, in seconds
PollIntervals == {1, 2, DefaultInterval}

PollTimeouts == {0, 1, 4, 9}

InitPoll ==
    /\ rules = DEFAULT_RULES
    /\ hour = 0
    /\ call = Idle
    /\ ticks = 0
    /\ pc = "none"
    /\ args = NoArgs
    /\ daypart_mult = 100
    /\ campaign_performance = <<>>
    /\ campaign_index = 0
    /\ campaign_actions = <<>>
    /\ keyword_rows = <<>>
    /\ bid_updates = <<>>
    /\ audit_lines = <<>>
    /\ audit_file = <<>>
    /\ calls = <<>>
    /\ called = {}
    /\ reports = NoReports
    /\ \E interval \in PollIntervals, timeout_s \in PollTimeouts :
         poll = PollStart(interval, timeout_s)
    /\ server = NoServer

NextPoll ==
    \/ PollRequest
    \/ PollTimeout

SpecPoll == InitPoll /\ [][NextPoll]_vars

\* poll_report is sequential code: its loop goes on until it returns or raises
\* (every request returns or raises within its timeout of 30 seconds, line 367)
SpecPollFair == SpecPoll /\ WF_vars(NextPoll)

\* a run of main, or the application of one of the functions
InitAll == Init \/ InitFn

NextAll == Next \/ NextFn

SpecAll == InitAll /\ [][NextAll]_vars

---------------------------------------------------------------------------
(* server.py: run_server, the verification thread and the handler *)

\* Lines 146-159: run_server has built the HTTP server and started the
\* verification thread, which has not yet run a statement; line 163 then
\* serves requests one at a time in the main thread.
InitServer ==
    /\ rules = DEFAULT_RULES
    /\ hour = 0
    /\ call = Idle
    /\ NoRun
    /\ server = [NoServer EXCEPT !.thread = "start", !.began = "start"]

\* line 116: the thread sets verification_running and goes on to
\* subprocess.run
ThreadSetRunning ==
    /\ server.thread = "start"
    /\ server' = [server EXCEPT !.verification_running = TRUE,
                                !.thread = "subprocess"]
    /\ UNCHANGED <<rules, hour, call, run_vars>>

\* lines 119-124: subprocess.run returns the finished process, or raises (a
\* timeout after 60 seconds, a failure to start the process)
SubprocessEnds ==
    /\ server.thread = "subprocess"
    /\ \E thread \in {"returned", "raised"} :
         server' = [server EXCEPT !.thread = thread]
    /\ UNCHANGED <<rules, hour, call, run_vars>>

\* lines 126-131, and 138-141 in the except clause: verification_results
ThreadSetResults ==
    /\ server.thread \in {"returned", "raised"}
    /\ server' = IF server.thread = "returned"
                 THEN [server EXCEPT !.verification_results = "results",
                                     !.thread = "results"]
                 ELSE [server EXCEPT !.verification_results = "error",
                                     !.thread = "error"]
    /\ UNCHANGED <<rules, hour, call, run_vars>>

\* lines 132 and 142: verification_timestamp
ThreadSetTimestamp ==
    /\ server.thread \in {"results", "error"}
    /\ server' = [server EXCEPT !.verification_timestamp = "set",
                                !.thread = "finally"]
    /\ UNCHANGED <<rules, hour, call, run_vars>>

\* lines 143-144: the finally clause, after which the thread ends
ThreadFinally ==
    /\ server.thread = "finally"
    /\ server' = [server EXCEPT !.verification_running = FALSE,
                                !.thread = "finished"]
    /\ UNCHANGED <<rules, hour, call, run_vars>>

\* lines 44-48: a GET /verify request reaches the handler
VerifyRequest ==
    /\ server.handler = "idle"
    /\ server.requests < MaxRequests
    /\ server' = [server EXCEPT !.handler = "line 50",
                                !.began = server.thread,
                                !.timestamp_read = "None",
                                !.requests = @ + 1]
    /\ UNCHANGED <<rules, hour, call, run_vars>>

\* the response written at line 70
Response(status, timestamp, results) ==
    [status |-> status, verification_timestamp |-> timestamp,
     results |-> results, began |-> server.began, ended |-> server.thread]

\* lines 50-55: the handler reads verification_running
TestRunning ==
    /\ server.handler = "line 50"
    /\ server' = IF server.verification_running
                 THEN [server EXCEPT
                         !.handler = "idle",
                         !.response = Response("running", "None", "None")]
                 ELSE [server EXCEPT !.handler = "line 56"]
    /\ UNCHANGED <<rules, hour, call, run_vars>>

\* lines 56 and 63-68: the handler reads verification_results, which is true
\* when it is a dictionary
TestResults ==
    /\ server.handler = "line 56"
    /\ server' = IF server.verification_results # "None"
                 THEN [server EXCEPT !.handler = "line 59"]
                 ELSE [server EXCEPT
                         !.handler = "idle",
                         !.response = Response("not_run", "None", "None")]
    /\ UNCHANGED <<rules, hour, call, run_vars>>

\* line 59: the handler reads verification_timestamp
ReadTimestamp ==
    /\ server.handler = "line 59"
    /\ server' = [server EXCEPT
                    !.handler = "line 60",
                    !.timestamp_read = server.verification_timestamp]
    /\ UNCHANGED <<rules, hour, call, run_vars>>

\* lines 60-62 and 70: the handler reads verification_results again and
\* writes the response
ReadResults ==
    /\ server.handler = "line 60"
    /\ server' = [server EXCEPT
                    !.handler = "idle",
                    !.response = Response("complete", server.timestamp_read,
                                          server.verification_results)]
    /\ UNCHANGED <<rules, hour, call, run_vars>>

NextServer ==
    \/ ThreadSetRunning
    \/ SubprocessEnds
    \/ ThreadSetResults
    \/ ThreadSetTimestamp
    \/ ThreadFinally
    \/ VerifyRequest
    \/ TestRunning
    \/ TestResults
    \/ ReadTimestamp
    \/ ReadResults

SpecServer == InitServer /\ [][NextServer]_vars

---------------------------------------------------------------------------
(* Properties *)

\* The bid decision the properties speak about: the latest pass over a keyword
\* row, with the conditions of the rules written out on its inputs.
IsKeywordCall == call.fn = "keyword_iteration" /\ pc = "none"

BidLo == rules.min_bid * BidScale

BidHi == rules.max_bid * BidScale

Clamped(v) == IF v < BidLo THEN BidLo ELSE IF v > BidHi THEN BidHi ELSE v

DownAdjusted == Some(Clamped(call.current_bid * (100 - rules.down_pct) * call.mult))

UpAdjusted == Some(Clamped(call.current_bid * (100 + rules.up_pct) * call.mult))

PassedThrough == Some(Clamped(call.current_bid * 100 * call.mult))

FewClicks == call.clicks < rules.min_clicks

LowSpend == call.cost < rules.min_spend

CtrBelowMin == call.ctr.n * 1000 < rules.min_ctr * call.ctr.d

AcosAboveHigh == call.acos.inf \/ call.acos.n * 100 > rules.high_acos * call.acos.d

AcosBelowLow == ~call.acos.inf /\ call.acos.n * 100 < rules.low_acos * call.acos.d

Rule1 == FewClicks /\ LowSpend

Rule2 == CtrBelowMin /\ ~FewClicks

Rule3 == call.sales <= 0 /\ ~FewClicks

Rule4 == AcosAboveHigh

Rule5 == AcosBelowLow /\ call.sales > 0

Rule6 == call.mult # 100

BidsIn(updates) ==
    \A i \in DOMAIN updates :
        rules.min_bid <= updates[i].bid /\ updates[i].bid <= rules.max_bid

\* C1: every bid decide_bid_change returns, and every bid placed in a bid update
\* (in the batch of a run and in the batch pushed to the platform), lies within
\* [min_bid, max_bid]; clamp returns a value within the range and returns its
\* argument unchanged when the argument is within the range.
C1_BidsWithinRange ==
    /\ call.fn = "keyword_iteration" =>
          /\ call.new_bid.some => BidLo <= call.new_bid.v /\ call.new_bid.v <= BidHi
          /\ BidsIn(call.updates)
    /\ BidsIn(bid_updates)
    /\ \A i \in DOMAIN calls :
          calls[i].op = "update_keyword_bids" => BidsIn(calls[i].arg)
    /\ call.fn = "clamp" =>
          /\ rules.min_bid <= call.out /\ call.out <= rules.max_bid
          /\ rules.min_bid <= call.v /\ call.v <= rules.max_bid => call.out = call.v

\* a bid above the range is proposed at max_bid and placed in a bid update
C1_Witness ==
    /\ IsKeywordCall
    /\ call.current_bid > rules.max_bid
    /\ call.new_bid = Some(BidHi)
    /\ call.updates # <<>>
    /\ call.updates[1].bid = rules.max_bid

\* C2: with clicks < min_clicks and cost < min_spend decide_bid_change returns
\* None, whatever the CTR, the ACOS, the sales, the current bid and the
\* dayparting multiplier.
C2_InsufficientDataNoChange ==
    IsKeywordCall /\ FewClicks /\ LowSpend => call.new_bid = None

\* too little data, while the low-CTR condition and the low-ACOS condition hold
\* and the multiplier is not 1.0
C2_Witness ==
    /\ IsKeywordCall
    /\ FewClicks /\ LowSpend
    /\ CtrBelowMin /\ AcosBelowLow /\ call.sales > 0
    /\ call.mult # 100
    /\ call.current_bid = 100
    /\ call.new_bid = None

\* C3: decide_bid_change returns the action of the first rule whose condition
\* holds, in the order insufficient data, low CTR, no sales, high ACOS, low ACOS
\* with sales, dayparting, none.
C3_FirstMatch ==
    IsKeywordCall =>
        call.new_bid =
            IF Rule1 THEN None
            ELSE IF Rule2 THEN DownAdjusted
            ELSE IF Rule3 THEN DownAdjusted
            ELSE IF Rule4 THEN DownAdjusted
            ELSE IF Rule5 THEN UpAdjusted
            ELSE IF Rule6 THEN PassedThrough
            ELSE None

\* a low CTR with enough clicks wins over a low ACOS with sales: the bid goes
\* down, not up
C3_Witness ==
    /\ IsKeywordCall
    /\ ~Rule1 /\ Rule2 /\ Rule5
    /\ call.current_bid = 100
    /\ call.new_bid = DownAdjusted
    /\ call.new_bid # UpAdjusted

IsCampaignCall == call.fn = "campaign_iteration" /\ pc = "none"

\* C4 as stated: for an entity with clicks < min_clicks no bid change and no
\* campaign action is decided unless cost > min_spend.
C4_Original ==
    /\ IsKeywordCall /\ FewClicks /\ ~(call.cost > rules.min_spend) =>
          call.new_bid = None /\ call.updates = <<>>
    /\ IsCampaignCall /\ call.perf.clicks < rules.min_clicks
                      /\ ~(call.perf.cost > rules.min_spend) =>
          call.actions = <<>> /\ call.calls = <<>>

\* C4, amended: for an entity with clicks < min_clicks no bid change is decided
\* unless cost >= min_spend, and no campaign action is decided whatever the cost.
C4_NoMutationOnFewClicks ==
    /\ IsKeywordCall /\ FewClicks /\ ~(call.cost >= rules.min_spend) =>
          call.new_bid = None /\ call.updates = <<>>
    /\ IsCampaignCall /\ call.perf.clicks < rules.min_clicks =>
          call.actions = <<>> /\ call.calls = <<>>

\* an enabled campaign with few clicks, a spend above min_spend and an ACOS above
\* the deactivation threshold is left alone in a live run
C4_Witness ==
    /\ IsCampaignCall
    /\ call.perf.clicks < rules.min_clicks
    /\ call.perf.cost > rules.min_spend
    /\ call.perf.state = "enabled"
    /\ RatGt(call.perf.acos, Pct(rules.deactivate_acos_threshold))
    /\ ~call.dry_run /\ call.update_ok
    /\ call.actions = <<>> /\ call.calls = <<>>

\* C5: with clicks < min_clicks and cost >= min_spend the guard does not return
\* None: the result is that of the high-ACOS, low-ACOS and dayparting rules, and
\* with no sales and a positive spend the ACOS is infinite and the bid goes down.
C5_AsymmetricGuard ==
    IsKeywordCall /\ FewClicks /\ ~LowSpend =>
        /\ call.new_bid =
              IF Rule4 THEN DownAdjusted
              ELSE IF Rule5 THEN UpAdjusted
              ELSE IF Rule6 THEN PassedThrough
              ELSE None
        /\ call.sales = 0 /\ call.cost > 0 =>
              call.acos.inf /\ call.new_bid = DownAdjusted

\* few clicks, a spend of at least min_spend, a CTR below the minimum, no sales:
\* the bid goes down by the high-ACOS rule
C5_Witness ==
    /\ IsKeywordCall
    /\ FewClicks /\ ~LowSpend
    /\ CtrBelowMin
    /\ call.sales = 0 /\ call.acos.inf
    /\ call.current_bid = 100
    /\ call.new_bid = DownAdjusted

\* C6: when none of the rules 1-5 fires, decide_bid_change proposes
\* clamp(bid * daypart_mult) if daypart_mult # 1.0 and None otherwise; with
\* dayparting switched off, an entity with enough data, a CTR of at least
\* min_ctr, sales and an ACOS within [low_acos, high_acos] is not changed.
C6_DaypartingPassThrough ==
    /\ IsKeywordCall /\ ~Rule1 /\ ~Rule2 /\ ~Rule3 /\ ~Rule4 /\ ~Rule5 =>
          call.new_bid = IF call.mult # 100 THEN PassedThrough ELSE None
    /\ IsKeywordCall /\ ~rules.dayparting_enabled
          /\ ~Rule1 /\ ~CtrBelowMin /\ call.sales > 0
          /\ ~AcosBelowLow /\ ~AcosAboveHigh =>
          call.new_bid = None /\ call.updates = <<>>

\* none of the rules 1-5 fires and the multiplier is 1.0 while dayparting is on
\* (a peak multiplier of 1.0): no change
C6_Witness ==
    /\ IsKeywordCall
    /\ ~Rule1 /\ ~Rule2 /\ ~Rule3 /\ ~Rule4 /\ ~Rule5
    /\ rules.dayparting_enabled
    /\ call.mult = 100
    /\ call.current_bid = 100
    /\ call.new_bid = None

Abs(x) == IF x < 0 THEN -x ELSE x

\* C7: in a run, the pass over a keyword row produces an entry of the bid
\* update batch only if decide_bid_change returned a bid whose distance from the
\* current bid is more than 0.01 (one cent): a None result and a proposal at a
\* distance of at most 0.01 produce no entry.
C7_DeadBand ==
    call.fn = "keyword_iteration" /\ pc # "none" /\ call.updates # <<>> =>
        /\ call.lookup.kind = "found"
        /\ call.new_bid.some
        /\ Abs(call.new_bid.v - call.lookup.bid * BidScale) > BidScale

\* a run in which a proposal one cent below the current bid (0.26 to the
\* minimum bid 0.25) became an entry of the batch
C7_Witness ==
    /\ pc = "bids"
    /\ call.fn = "keyword_iteration"
    /\ call.lookup = Found(26)
    /\ call.new_bid = Some(25 * BidScale)
    /\ Len(call.updates) = 1
    /\ call.updates[1].bid = 25
    /\ bid_updates = call.updates

\* the number a field of a report row stands for
ValueOf(f) == IF f = Missing \/ f = Empty THEN 0 ELSE f.v

IsKpiCall == call.fn = "compute_kpis" /\ pc = "none"

\* C8: compute_kpis returns acos = cost / sales when sales > 0, infinity when
\* sales = 0 and cost > 0, and 0 when both are 0; an infinite ACOS is above
\* high_acos and not below low_acos: whenever the guard lets it through the bid
\* goes down, never up.
C8_Acos ==
    /\ IsKpiCall /\ ~call.out.raised =>
          LET cost == ValueOf(call.row.cost)
              sales == ValueOf(call.row.attributedSales14d)
              acos == call.out.acos
          IN  /\ sales > 0 => ~acos.inf /\ acos.n * sales = cost * acos.d /\ acos.d > 0
              /\ sales = 0 /\ cost > 0 => acos.inf
              /\ sales = 0 /\ cost = 0 => ~acos.inf /\ acos.n = 0 /\ acos.d > 0
    /\ IsKeywordCall /\ call.acos.inf /\ ~Rule1 => call.new_bid = DownAdjusted

\* a spend without sales yields the infinite ACOS
C8_Witness ==
    /\ IsKpiCall
    /\ call.row.cost = Num(900)
    /\ call.row.attributedSales14d = Missing
    /\ call.out.acos = Inf

\* the row with its absent and empty fields replaced by the number 0
Zeroed(row) == [f \in DOMAIN row |-> Num(ValueOf(row[f]))]

\* C9: compute_kpis returns ctr = clicks / impressions if impressions > 0 and 0
\* otherwise; a row in which clicks, impressions, cost or sales are absent or
\* empty is evaluated as if those fields were 0, and no exception is raised.
C9_CtrAndDefaults ==
    IsKpiCall /\ (\A f \in DOMAIN call.row : call.row[f] # Text) =>
        LET clicks == ValueOf(call.row.clicks)
            impressions == ValueOf(call.row.impressions)
            ctr == call.out.ctr
        IN  /\ ~call.out.raised
            /\ ~ctr.inf /\ ctr.d > 0
            /\ impressions > 0 => ctr.n * impressions = clicks * ctr.d
            /\ impressions = 0 => ctr.n = 0
            /\ call.out.clicks = clicks
            /\ call.out.cost = ValueOf(call.row.cost)
            /\ call.out.sales = ValueOf(call.row.attributedSales14d)
            /\ call.out = compute_kpis(Zeroed(call.row))

\* a row with only absent and empty fields is evaluated to zeros
C9_Witness ==
    /\ IsKpiCall
    /\ call.row.clicks = Empty /\ call.row.impressions = Missing
    /\ call.row.cost = Empty /\ call.row.attributedSales14d = Missing
    /\ ~call.out.raised
    /\ call.out.ctr = Zero /\ call.out.acos = Zero
    /\ call.out.clicks = 0 /\ call.out.cost = 0 /\ call.out.sales = 0

IsDaypartingCall == call.fn = "get_dayparting_multiplier" /\ pc = "none"

\* C10: get_dayparting_multiplier returns 1.0 at every hour when dayparting is
\* off; when it is on, the peak multiplier if the hour is a peak hour and the
\* off-peak multiplier otherwise.
C10_DaypartingMultiplier ==
    IsDaypartingCall /\ hour \in 0 .. 23 =>
        call.out = IF ~rules.dayparting_enabled THEN 100
                   ELSE IF hour \in rules.peak_hours THEN rules.peak_multiplier
                   ELSE rules.off_peak_multiplier

\* dayparting is off and the hour is a peak hour: the multiplier is 1.0, not the
\* peak multiplier
C10_Witness ==
    /\ IsDaypartingCall
    /\ ~rules.dayparting_enabled
    /\ hour \in rules.peak_hours
    /\ rules.peak_multiplier # 100
    /\ call.out = 100

PollTerminalOutcomes == {"SUCCESS", "FAILURE", "TIMEOUT"}

C12_PollingTerminates ==
    /\ <>(poll.state = "done")
    /\ [](poll.outcome = "TIMEOUT" =>
             /\ poll.now >= poll.deadline
             /\ poll.response \in {"none", "IN_PROGRESS", "no_status"})
    /\ [](poll.state = "polling" /\ poll.now >= poll.deadline =>
             ~ENABLED PollRequest)
    /\ [](~poll.late)

\* a report that stayed pending until the deadline: TIMEOUT after a request
C12_Witness ==
    /\ pc = "none"
    /\ poll.outcome = "TIMEOUT"
    /\ poll.response = "IN_PROGRESS"
    /\ poll.deadline > 0
    /\ poll.now >= poll.deadline

\* the fetch of the report of kind type ended in this step, in a failure
FetchFailedNow(type) == reports[type] = "none" /\ Failed(reports'[type])

\* what poll_report had come to when the fetch ended in failure
FailureCause(failure) ==
    IF failure \in {"no_id", "create_error"}
    THEN poll = PollIdle /\ pc \in {"step1", "step3"}
    ELSE /\ poll.state = "done"
         /\ failure = "failed_status" => poll.response \in {"FAILURE", "CANCELLED"}
         /\ failure = "timeout" => poll.outcome = "TIMEOUT"
         /\ failure = "status_error" => poll.outcome = "ERROR"
         /\ failure \in DownloadFailures => poll.outcome = "SUCCESS"

\* C13: a report that fails (no id, in which case poll_report is not called; a
\* failed or cancelled status; a timeout; a failing status request; a payload
\* that cannot be decoded) leaves that report's rows empty and the run goes on
\* with the next stage; after a failed campaign report the keyword report is
\* still asked for and processed.
C13_ReportFailureIsStageFatal ==
    /\ [][FetchFailedNow("campaigns") =>
            /\ FailureCause(reports'.campaigns)
            /\ campaign_performance' = <<>>
            /\ poll' = PollIdle
            /\ pc' = "step2"]_vars
    /\ [][FetchFailedNow("keywords") =>
            /\ FailureCause(reports'.keywords)
            /\ keyword_rows' = <<>>
            /\ poll' = PollIdle
            /\ pc' = "bids"]_vars
    /\ [](pc = "step2" /\ Failed(reports.campaigns) =>
            /\ campaign_actions = <<>> /\ calls = <<>>
            /\ ENABLED EndCampaigns)
    /\ [](pc = "step3" /\ ~args.skip_bids => ENABLED CreateKeywordReport)
    /\ [](Failed(reports.keywords) =>
            /\ pc \in {"bids", "audit", "step4", "step5", "done"}
            /\ bid_updates = <<>> /\ audit_lines = <<>>
            /\ pc = "bids" => ENABLED PushBidUpdates)

\* the campaign report failed and a row of the keyword report has led to a bid
\* update
C13_Witness ==
    /\ reports.campaigns = "failed"
    /\ reports.keywords = "ok"
    /\ pc = "audit"
    /\ bid_updates # <<>>

\* the action of the campaign manager on the campaign of the latest pass
PauseAction ==
    [campaign_id |-> 1,
     action |-> IF call.dry_run THEN "paused (dry-run)" ELSE "paused",
     acos |-> call.perf.acos]

EnableAction ==
    [campaign_id |-> 1,
     action |-> IF call.dry_run THEN "enabled (dry-run)" ELSE "enabled",
     acos |-> call.perf.acos]

EnoughClicks == call.perf.clicks >= rules.min_clicks

AcosAboveDeactivate == RatGt(call.perf.acos, Pct(rules.deactivate_acos_threshold))

AcosWithinActivate == ~RatGt(call.perf.acos, Pct(rules.activate_acos_threshold))

\* the state update goes through, or the run is a dry run
Actuated == call.dry_run \/ call.update_ok

\* C14: an enabled campaign with clicks >= min_clicks and an ACOS above the
\* deactivation threshold gets a pause action when automatic deactivation is
\* on, in a dry run and in a live run whose state update succeeds; the live run
\* calls update_campaign_state with "paused", the dry run calls nothing.
C14_PauseOnHighAcos ==
    IsCampaignCall /\ EnoughClicks /\ AcosAboveDeactivate
        /\ call.perf.state = "enabled" /\ rules.auto_deactivate_campaigns =>
        /\ Actuated => call.actions = <<PauseAction>>
        /\ call.dry_run => call.calls = <<>>
        /\ ~call.dry_run =>
              call.calls = <<[op |-> "update_campaign_state", id |-> 1, arg |-> "paused"]>>

\* scenario E in a live run: ACOS 0.50, enabled, clicks at the minimum, paused
C14_Witness ==
    /\ IsCampaignCall
    /\ rules = DEFAULT_RULES
    /\ call.perf.clicks = rules.min_clicks
    /\ call.perf.acos = Rat(500, 1000)
    /\ call.perf.state = "enabled"
    /\ ~call.dry_run /\ call.update_ok
    /\ call.actions = <<PauseAction>>

\* C15: a paused campaign with clicks >= min_clicks and an ACOS of at most the
\* activation threshold gets an enable action when automatic activation is on,
\* whatever the two thresholds are.
C15_EnableOnLowAcos ==
    IsCampaignCall /\ EnoughClicks /\ AcosWithinActivate
        /\ call.perf.state = "paused" /\ rules.auto_activate_campaigns =>
        (Actuated => call.actions = <<EnableAction>>)

\* a paused campaign whose ACOS lies above the deactivation threshold and within
\* the activation threshold is left paused
C15_Witness ==
    /\ IsCampaignCall
    /\ EnoughClicks
    /\ call.perf.state = "paused"
    /\ rules.auto_activate_campaigns /\ rules.auto_deactivate_campaigns
    /\ AcosWithinActivate /\ AcosAboveDeactivate
    /\ call.dry_run
    /\ call.actions = <<>>

\* the state an action leads to
TargetOf(action) ==
    IF action \in {"paused", "paused (dry-run)"} THEN "paused" ELSE "enabled"

\* the entry of the campaign in main's performance map
EntryOf(campaign_id) ==
    CHOOSE e \in {campaign_performance[i] : i \in 1 .. Len(campaign_performance)} :
        e.campaign_id = campaign_id

\* C16: the campaign manager emits an action only for a campaign with
\* clicks >= min_clicks whose state differs from the action's target state, and
\* at most one action per campaign in a run.
C16_ActionOnlyOnStateChange ==
    /\ IsCampaignCall =>
          /\ Len(call.actions) <= 1
          /\ \A i \in DOMAIN call.actions :
                /\ EnoughClicks
                /\ TargetOf(call.actions[i].action) # call.perf.state
                /\ call.actions[i] \in {PauseAction, EnableAction}
    /\ pc = "step2" =>
          /\ \A i, j \in DOMAIN campaign_actions :
                campaign_actions[i].campaign_id = campaign_actions[j].campaign_id => i = j
          /\ \A i \in DOMAIN campaign_actions :
                LET e == EntryOf(campaign_actions[i].campaign_id)
                IN  /\ e.perf.clicks >= rules.min_clicks
                    /\ TargetOf(campaign_actions[i].action) # e.perf.state

\* a run over two campaigns with a high ACOS: the one with enough clicks is
\* paused, the one with few clicks gets no action
C16_Witness ==
    /\ pc = "step2"
    /\ campaign_index = 2
    /\ Len(campaign_actions) = 1
    /\ TargetOf(campaign_actions[1].action) = "paused"
    /\ \E i \in DOMAIN campaign_performance :
          /\ campaign_performance[i].perf.clicks < rules.min_clicks
          /\ campaign_performance[i].perf.state = "enabled"
          /\ RatGt(campaign_performance[i].perf.acos, Pct(rules.deactivate_acos_threshold))

\* C17: when update_campaign_state fails for a campaign, that campaign adds no
\* action, and the campaigns after it are still visited and, where a rule
\* fires, actuated.
C17_ActuationFaultIsolated ==
    /\ [][campaign_index' = campaign_index + 1 =>
            LET e == campaign_performance[campaign_index']
                done == CampaignIteration(rules, e.campaign_id, e.perf, args.dry_run, TRUE)
            IN  /\ calls' = calls \o done.calls
                /\ \/ campaign_actions' = campaign_actions \o done.actions
                   \/ /\ ~args.dry_run /\ done.calls # <<>>
                      /\ campaign_actions' = campaign_actions
                /\ pc' = "step2"]_vars
    /\ [](pc = "step2" /\ ~args.skip_campaigns
            /\ campaign_index < Len(campaign_performance) => ENABLED ManageCampaign)

\* the state update failed for the first campaign and the second one was paused
C17_Witness ==
    /\ pc = "step2"
    /\ campaign_index = 2
    /\ Len(calls) = 2
    /\ calls[1].id = 1 /\ calls[2].id = 2
    /\ Len(campaign_actions) = 1
    /\ campaign_actions[1].campaign_id = 2
    /\ campaign_actions[1].action = "paused"

IsResearchCall == call.fn = "research_and_add_keywords" /\ pc = "none"

\* two texts that are equal but for the case of their letters
SameIgnoringCase(a, b) == a.stem = b.stem

\* the candidates proposed for the ad group: the batch handed to
\* create_keywords or, in a dry run, reported as added
Candidates == call.new_keywords

\* C18: no candidate has the text of an existing keyword of the ad group, and
\* no two candidates of the batch have the same text, case ignored.
C18_CandidatesUnique ==
    IsResearchCall =>
        /\ \A i \in DOMAIN Candidates, j \in DOMAIN call.existing_keywords :
              ~SameIgnoringCase(Candidates[i].keywordText,
                                call.existing_keywords[j].keywordText)
        /\ \A i, j \in DOMAIN Candidates :
              SameIgnoringCase(Candidates[i].keywordText, Candidates[j].keywordText)
                  => i = j
        /\ \A i \in DOMAIN call.calls : call.calls[i].arg = Candidates
        /\ \A i \in DOMAIN call.added :
              \E j \in DOMAIN Candidates :
                  call.added[i].keyword = Candidates[j].keywordText

\* the suggestions hold a word in two spellings and the upper-case spelling of
\* an existing keyword; one candidate remains
C18_Witness ==
    /\ IsResearchCall
    /\ call.existing_keywords = <<Keyword(2, "lower"), Keyword(2, "Title")>>
    /\ call.suggestions = SubSeq(Pool, 1, 3)
    /\ ~call.dry_run
    /\ Len(Candidates) = 1
    /\ Candidates[1].keywordText = KeywordText(1, "lower")
    /\ Len(call.calls) = 1

\* the suggestions that pass the filter: those whose text, case ignored, is
\* neither an existing keyword's nor an earlier suggestion's
Fresh ==
    {k \in DOMAIN call.suggestions :
        /\ \A j \in DOMAIN call.existing_keywords :
              ~SameIgnoringCase(call.suggestions[k].keywordText,
                                call.existing_keywords[j].keywordText)
        /\ \A j \in 1 .. k - 1 :
              ~SameIgnoringCase(call.suggestions[k].keywordText,
                                call.suggestions[j].keywordText)}

\* the i-th of them
NthFresh(i) == CHOOSE k \in Fresh : Cardinality({j \in Fresh : j < k}) = i - 1

\* C19: at most 5 candidates are proposed for an ad group, and they are the
\* first suggestions, in order, that pass the filter.
C19_AtMostFiveInOrder ==
    IsResearchCall =>
        /\ Len(Candidates) <= 5
        /\ Len(call.added) <= 5
        /\ call.fetched /\ ~call.raised =>
              /\ Len(Candidates) = Min(5, Cardinality(Fresh))
              /\ \A i \in DOMAIN Candidates :
                    /\ Candidates[i].keywordText = call.suggestions[NthFresh(i)].keywordText
                    /\ Candidates[i].matchType = call.suggestions[NthFresh(i)].matchType

\* nine suggestions with seven new words: the first five are proposed
C19_Witness ==
    /\ IsResearchCall
    /\ call.existing_keywords = <<>>
    /\ call.suggestions = Pool
    /\ Cardinality(Fresh) = 7
    /\ Len(Candidates) = 5
    /\ Candidates[5].keywordText = KeywordText(5, "lower")
    /\ Len(call.added) = 5

\* C20: an ad group with at least max_keywords_per_campaign existing keywords is
\* skipped: no suggestions are fetched, no candidate is proposed or created.
C20_SkipAtQuota ==
    IsResearchCall
        /\ Len(call.existing_keywords) >= rules.max_keywords_per_campaign =>
        /\ ~call.fetched
        /\ Candidates = <<>>
        /\ call.calls = <<>>
        /\ call.added = <<>>
        /\ ~call.raised

\* an ad group with exactly as many keywords as the quota, and new suggestions
C20_Witness ==
    /\ IsResearchCall
    /\ ResearchSwitchedOn(rules)
    /\ Len(call.existing_keywords) = rules.max_keywords_per_campaign
    /\ call.suggestions = Pool
    /\ Fresh # {}
    /\ ~call.dry_run
    /\ ~call.fetched
    /\ call.calls = <<>>

---------------------------------------------------------------------------
(* Claims about the keyword research pass *)

IsPassCall == call.fn = "research_pass" /\ pc = "none"

\* ad group j of the pass meets no fault of its own: get_keywords returns and
\* both ids are numbers
NoOtherFault(j) ==
    /\ call.inputs[j].fetch_ok
    /\ call.inputs[j].ad_group.campaignId.kind = "num"

\* create_keywords was called for the i-th ad group with its candidates
BatchCreated(i) ==
    \E k \in 1 .. Len(call.calls) :
        /\ call.calls[k].op = "create_keywords"
        /\ call.calls[k].id = call.log[i].ad_group_id
        /\ call.calls[k].arg = call.log[i].new_keywords

\* the entries of added_keywords that belong to the i-th ad group
EntriesOf(i) ==
    { k \in 1 .. Len(call.added_keywords) :
        call.added_keywords[k].ad_group_id = call.log[i].ad_group_id }

\* C21: when create_keywords raises for an ad group, the failed batch adds no
\* entry to the result and the loop goes on: every later ad group that meets no
\* fault of its own is evaluated, and create_keywords is called for its
\* candidates.
C21_CreateFailureIsolated ==
    IsPassCall =>
        \A i \in 1 .. Len(call.log) :
            call.log[i].created = "raises" =>
                /\ EntriesOf(i) = {}
                /\ ~call.raised \/ Len(call.log) > i
                /\ \A j \in i + 1 .. Len(call.inputs) :
                       (\A k \in i + 1 .. j : NoOtherFault(k)) =>
                           /\ j <= Len(call.log)
                           /\ call.log[j].evaluated
                           /\ call.log[j].new_keywords # <<>> => BatchCreated(j)

\* a live pass over two ad groups: the creation fails for the first, the batch
\* of the second is created and makes up the result
C21_Witness ==
    /\ IsPassCall
    /\ ~call.dry_run
    /\ Len(call.log) = 2
    /\ call.log[1].created = "raises"
    /\ call.log[1].new_keywords # <<>>
    /\ call.log[2].created = "all"
    /\ BatchCreated(2)
    /\ call.added_keywords # <<>>
    /\ EntriesOf(2) = 1 .. Len(call.added_keywords)
    /\ ~call.raised

---------------------------------------------------------------------------
(* Claims about the dry run *)

\* the platform operations that change something
MutatingOperations ==
    {"update_campaign_state", "update_keyword_bids", "create_keywords",
     "create_campaign", "create_ad_group", "create_product_ad"}

\* the latest application of a function that takes dry_run was a dry run
IsDryCall(fn) == pc = "none" /\ call.fn = fn /\ call.dry_run

\* the actions of a live pass as a dry run labels them
MarkedDry(actions) ==
    [i \in DOMAIN actions |-> [actions[i] EXCEPT !.action = @ \o " (dry-run)"]]

\* C22: in a dry run no mutating platform operation is called at any point, and
\* the decisions are computed and reported as in a live run: the campaign
\* actions of a live run whose updates succeed, labelled dry-run; the bid
\* updates with their audit rows; one dry-run entry for every keyword candidate
\* of a live run; a dry-run entry for a product.
C22_DryRunMutatesNothing ==
    /\ pc # "none" /\ args.dry_run =>
          /\ Operations(calls) \cap MutatingOperations = {}
          /\ called \cap MutatingOperations = {}
          /\ call.fn = "research_pass" =>
                /\ call.calls = <<>>
                /\ \A i \in 1 .. Len(call.log) :
                       Len(call.log[i].added) = Len(call.log[i].new_keywords)
          /\ pc \in {"audit", "step4"} =>
                /\ Len(audit_lines) = Len(bid_updates)
                /\ pc = "step4" => audit_file = audit_lines
    /\ IsDryCall("campaign_iteration") =>
          /\ call.calls = <<>>
          /\ call.actions =
               MarkedDry(CampaignIteration(rules, 1, call.perf, FALSE, TRUE).actions)
    /\ IsDryCall("research_and_add_keywords") =>
          /\ call.calls = <<>>
          /\ ~call.raised /\ ResearchSwitchedOn(rules) =>
                /\ call.new_keywords =
                     ResearchAdGroup(rules, call.ad_group, call.existing_keywords,
                                     call.suggestions, FALSE, "all").new_keywords
                /\ Len(call.added) = Len(call.new_keywords)
                /\ \A i \in 1 .. Len(call.added) :
                       /\ call.added[i].status = "dry-run"
                       /\ call.added[i].keyword = call.new_keywords[i].keywordText
    /\ IsDryCall("research_pass") =>
          /\ call.calls = <<>>
          /\ \A i \in 1 .. Len(call.log) :
                 Len(call.log[i].added) = Len(call.log[i].new_keywords)
    /\ IsDryCall("create_campaign_for_product") =>
          /\ call.calls = <<>>
          /\ rules.auto_create_campaigns => call.result = "dry-run"

\* a dry run that has gone through every step: bid updates were decided and
\* written to the audit file, keyword candidates were reported, and no
\* mutating operation was called
C22_Witness ==
    /\ pc = "done"
    /\ args.dry_run
    /\ ~args.skip_campaigns
    /\ reports.campaigns = "ok"
    /\ audit_file # <<>>
    /\ bid_updates # <<>>
    /\ called = {}
    /\ calls = <<>>

---------------------------------------------------------------------------
(* Claims about the audit trail *)

\* the latest pass of the run over a keyword row
IsRunKeywordCall == call.fn = "keyword_iteration" /\ pc \in {"bids", "aborted"}

\* C23: the audit trail holds exactly one row for every bid decision evaluated
\* in the run: every pass over a keyword row in which a rule fired and a bid
\* was proposed adds one row, and the rows are in the audit file once step 3
\* is over.
C23_AuditRowPerDecision ==
    /\ IsRunKeywordCall /\ call.new_bid.some => Len(call.audits) = 1
    /\ pc \in {"step4", "step5", "done"} => audit_file = audit_lines

\* a rule fired for the keyword and a bid was proposed, and no audit row was
\* written for it
C23_Witness ==
    /\ IsRunKeywordCall
    /\ pc = "bids"
    /\ call.lookup = Found(26)
    /\ call.new_bid.some
    /\ ~(call.new_bid.v - 26 * BidScale \in {-BidScale, BidScale})
    /\ call.audits = <<>>
    /\ call.updates = <<>>

---------------------------------------------------------------------------
(* Claims about the order of the stages *)

\* the keyword expansion pass of the run is over
ExpansionOver == pc \in {"step5", "done"}

\* C24: the stages of a run follow one another in the order report retrieval,
\* KPI normalization, decisions, mutation calls, keyword expansion, audit
\* recording: a report has been polled to completion when the stage that
\* consumes it runs, and the audit file is written after the keyword expansion
\* pass.
C24_StageOrder ==
    /\ pc = "step2" => reports.campaigns # "none" /\ poll = PollIdle
    /\ pc \in {"bids", "audit"} => reports.keywords # "none" /\ poll = PollIdle
    /\ audit_file # <<>> => ExpansionOver

\* the audit file is written and the keyword expansion pass has not begun
C24_Witness ==
    /\ pc = "step4"
    /\ ~args.skip_keywords
    /\ audit_file # <<>>
    /\ ENABLED KeywordResearch

\* C25: the dayparting multiplier recorded in an audit row is the multiplier
\* decide_bid_change applied when it computed the row's new bid, also when the
\* hour changes during the run.
C25_AuditedMultiplierIsApplied ==
    IsRunKeywordCall =>
        \A i \in 1 .. Len(call.audits) : call.audits[i].daypart_mult = call.mult

\* the hour has passed from off-peak to peak since the start of the run, and an
\* audit row was written for a bid computed after that
C25_Witness ==
    /\ IsRunKeywordCall
    /\ ticks = 1
    /\ hour = 9
    /\ daypart_mult = rules.off_peak_multiplier
    /\ call.mult = rules.peak_multiplier
    /\ call.audits # <<>>
    /\ call.audits[1].daypart_mult = rules.off_peak_multiplier

---------------------------------------------------------------------------
(* Claims about the direction of a bid change *)

\* one of the down-bid rules (low CTR, no sales, high ACOS) fires
DownRuleFires == ~Rule1 /\ (Rule2 \/ Rule3 \/ Rule4)

BidInRange ==
    rules.min_bid <= call.current_bid /\ call.current_bid <= rules.max_bid

\* C26: when a down-bid rule fires for a keyword whose current bid lies within
\* [min_bid, max_bid], the proposed bid is not greater than the current bid,
\* whatever the dayparting multiplier.
C26_DownBidNeverRaises ==
    IsKeywordCall /\ DownRuleFires /\ BidInRange =>
        /\ call.new_bid.some
        /\ call.new_bid.v <= call.current_bid * BidScale

\* the low-CTR rule fires at a peak hour with the default multiplier of 1.2
\* and the proposed bid is above the current bid
C26_Witness ==
    /\ IsKeywordCall
    /\ rules = DEFAULT_RULES
    /\ Rule2
    /\ ~Rule1
    /\ call.current_bid = 100
    /\ call.mult = 120
    /\ call.new_bid = Some(102 * BidScale)

---------------------------------------------------------------------------
(* Claims about the keyword quota and about faults during the pass *)

\* C27: for an ad group with at most max_keywords_per_campaign existing
\* keywords, the existing keywords and the candidates proposed for it in the
\* pass together do not exceed max_keywords_per_campaign.
C27_QuotaRespected ==
    IsResearchCall
        /\ Len(call.existing_keywords) <= rules.max_keywords_per_campaign =>
        Len(call.existing_keywords) + Len(Candidates)
            <= rules.max_keywords_per_campaign

\* an ad group one keyword below a quota of two, for which five candidates are
\* proposed and created
C27_Witness ==
    /\ IsResearchCall
    /\ rules.max_keywords_per_campaign = 2
    /\ call.existing_keywords = <<Keyword(1, "UPPER")>>
    /\ call.suggestions = Pool
    /\ ~call.dry_run
    /\ call.created = "all"
    /\ Len(Candidates) = 5
    /\ Len(call.added) = 5


\* a pass of research_and_add_keywords, by itself or as step 4 of a run
IsAnyPassCall == call.fn = "research_pass"

\* What the keyword stage reports: the list research_and_add_keywords returns
\* (line 618), whose length main prints at line 887; when an exception leaves
\* the function nothing is returned and main prints the error (line 890)
Reported == IF call.raised THEN <<>> ELSE call.added_keywords

\* the entries of the reported result that belong to the i-th ad group
ReportedOf(i) ==
    { k \in 1 .. Len(Reported) :
        Reported[k].ad_group_id = call.log[i].ad_group_id }

\* C28: in a live pass every batch created on the platform is in the reported
\* result, and every ad group that meets no fault of its own is evaluated,
\* whatever happens at the other ad groups of the pass.
C28_FaultsKeepResult ==
    IsAnyPassCall /\ ~call.dry_run /\ ResearchSwitchedOn(rules) =>
        /\ \A i \in 1 .. Len(call.log) :
               call.log[i].created = "all" /\ BatchCreated(i) =>
                   Cardinality(ReportedOf(i)) = Len(call.log[i].new_keywords)
        /\ \A j \in 1 .. Len(call.inputs) :
               NoOtherFault(j) =>
                   /\ j <= Len(call.log)
                   /\ call.log[j].evaluated

\* step 4 of a live run over two ad groups: the batch of the first is created,
\* get_keywords raises for the second, the exception is caught in main and
\* nothing is reported
C28_Witness ==
    /\ IsAnyPassCall
    /\ pc = "step5"
    /\ ~args.dry_run
    /\ Len(call.inputs) = 2
    /\ call.log[1].created = "all"
    /\ BatchCreated(1)
    /\ Len(call.log[1].new_keywords) = 2
    /\ Len(call.added_keywords) = 2
    /\ ~call.inputs[2].fetch_ok
    /\ call.raised
    /\ Reported = <<>>
    /\ "create_keywords" \in called

---------------------------------------------------------------------------
(* Claims about the dry-run setting of POST /run *)

IsRunOptimizerCall == call.fn = "run_optimizer" /\ pc = "none"

\* the body supplies a value under the key
Supplied(value) == value.kind \notin {"absent", "null"}

\* the booleans the body gives as dry_run or dryRun
GivenInBody ==
    { _as_bool(value, FALSE) :
        value \in { v \in {call.dry_run_key, call.dryRun_key} : Supplied(v) } }

\* C29: the dry-run flag passed to the optimizer is a value the body gives as
\* dry_run or dryRun whenever it gives one, an explicit false included; it is
\* the default from PPC_DRY_RUN only when the body gives neither.
C29_BodyOverridesDefault ==
    IsRunOptimizerCall =>
        IF GivenInBody # {}
        THEN call.dry_run \in GivenInBody
        ELSE call.dry_run = call.default

\* the body {"dry_run": false} with PPC_DRY_RUN=true: the optimizer is run
\* with dry_run true
C29_Witness ==
    /\ IsRunOptimizerCall
    /\ call.dry_run_key = JsonBool(FALSE)
    /\ call.dryRun_key = Absent
    /\ call.env = JsonStr("true", FALSE, FALSE)
    /\ call.default
    /\ call.dry_run

---------------------------------------------------------------------------
(* Claims about GET /verify *)

\* C30: under every interleaving of the verification thread with the
\* requests, a response 'complete' carries results and a
\* verification_timestamp that are not null; a request served while the
\* subprocess is running is answered 'running'; a request that begins after
\* the thread has finished is answered 'complete'.
C30_VerifyResponses ==
    LET r == server.response
    IN  r.status # "none" =>
            /\ r.status = "complete" =>
                   r.results # "None" /\ r.verification_timestamp # "None"
            /\ r.began = "subprocess" /\ r.ended = "subprocess" =>
                   r.status = "running"
            /\ r.began = "finished" => r.status = "complete"

\* a request that read verification_running before the thread set it and
\* verification_results after the thread set it, before the timestamp was
\* set: 'complete' without a timestamp
C30_Witness ==
    /\ server.response.status = "complete"
    /\ server.response.began = "start"
    /\ server.response.results = "results"
    /\ server.response.verification_timestamp = "None"

=============================================================================
